---- MODULE Spec2Model ----
\* Model of llmbench's benchmark service (package service):
\*   BenchmarkService.RunBenchmark / runProviderBenchmark  (benchmark service file)
\*   OpenAIService.SendChatCompletion / SendChatCompletionStream (endpoint client)
\* One goroutine per provider (the "runner"), one goroutine per request (the
\* "task"); a buffered channel is the admission gate, sync.Mutex and
\* sync.WaitGroup are modelled by their holder / counter.
EXTENDS Integers, Sequences, FiniteSets, TLC

\* ---------------------------------------------------------------- bounds
MaxProviders == 2
MaxRequests == 3
MaxConcurrency == 2
\* total number of request goroutines of one run (providers * requests)
MaxTasks == 3
\* slots of globalProgressChan that are modelled (the program makes it with
\* 100): few enough for the notifications of MaxTasks requests to fill it
ProgressSlots == 1

AllNames == <<"p1", "p2", "p3", "p4">>
Runners == 1..MaxProviders
NameSet == {AllNames[k] : k \in Runners}
TaskIds == 0..(MaxRequests - 1)
NoResult == [Provider |-> "", Success |-> FALSE, Error |-> "", IsStreaming |-> FALSE]

\* err.Error() texts of a failed call (per-request timeout, cancelled context)
ErrDeadline == "context deadline exceeded"
ErrCanceled == "context canceled"
Outcomes == {"ok", ErrDeadline}

\* model identifiers: AllModels[k] is the model configured for provider
\* AllNames[k]; a caller's request names no model or some other endpoint's
AllModels == <<"m1", "m2", "m3", "m4">>
RequestModels == {"", "m2"}
\* the flag defaults: one user message, --max-tokens 100
BenchmarkRequests ==
    [Messages : {<<[Role |-> "user", Content |-> "Hello, how are you?"]>>},
     Model : RequestModels,
     MaxTokens : {100},
     Stream : BOOLEAN]
NoRequest == [Messages |-> << >>, Model |-> "", MaxTokens |-> 0, Stream |-> FALSE]
\* the two revisions of the endpoint client in the source tree: "counted"
\* has the token counter, "chunks" counts content fragments
ClientRevisions == {"counted", "chunks"}

VARIABLES
    config,        \* models.BenchmarkConfig handed to NewBenchmarkService
    request,       \* models.BenchmarkRequest handed to RunBenchmark
    hasCallback,   \* progressCallback != nil
    ctxDone,       \* the run's context has been cancelled
    mainPc,        \* position of the caller in NewBenchmarkService / RunBenchmark
    mainI,         \* providers already spawned by RunBenchmark's loop
    mainWg,        \* RunBenchmark's sync.WaitGroup counter
    mainMu,        \* runners holding RunBenchmark's mutex ({} when unlocked)
    results,       \* RunBenchmark's results map: name -> sequence of records
    ret,           \* value returned by RunBenchmark
    runnerPc,      \* position of each provider goroutine
    runnerI,       \* loop variable i of runProviderBenchmark
    runnerWg,      \* runProviderBenchmark's WaitGroup counter
    semaphore,     \* number of tokens in the semaphore channel
    mu,            \* tasks holding runProviderBenchmark's mutex ({} when unlocked)
    runnerResults, \* runProviderBenchmark's results slice
    taskPc,        \* position of each request goroutine
    taskResult,    \* local variable result of each request goroutine
    taskRequest,   \* local variable providerRequest of each request goroutine
    progress,      \* invocations of progressCallback, per provider name
    resultSet,     \* the results argument of a GenerateSummary call
    summaries,     \* the map GenerateSummary returned (NoSummaries before the call)
    connInput,     \* client revision and providers of a TestConnections call
    connPc,        \* position of the caller in TestConnections
    connI,         \* providers already spawned by TestConnections' loop
    connWg,        \* TestConnections' sync.WaitGroup counter
    connMu,        \* probes holding TestConnections' mutex
    connResults,   \* TestConnections' results map: name -> error
    connRet,       \* value returned by TestConnections
    probePc,       \* position of each probe goroutine
    probeRequest,  \* testRequest of each probe
    probeResult,   \* result of each probe's SendChatCompletion
    probeErr,      \* err of each probe goroutine
    streamInput,   \* client revision and what the transport delivers to one streaming call
    streamResult,  \* the BenchmarkResult the streaming call returned
    tui,           \* progressCallback is the closure of the TUI's startBenchmark
    progressChan,  \* messages buffered in globalProgressChan
    delivered,     \* number of progress messages listenForUpdates has received
    fileConfig,    \* what the configuration file and the environment set
    flags,         \* the --requests and --concurrent flags of the benchmark command
    cfgPc,         \* position of the command: initConfig, runBenchmark, ended
    mgrConfig,     \* the Manager's config after Load
    svcConfig,     \* the BenchmarkConfig handed to NewBenchmarkService
    cliOut,        \* what runCLIBenchmark printed, ran and saved
    appConfig,     \* providers and request count of the TUI's benchmark service
    model,         \* the TUI's Model
    quitted,       \* the program ended on tea.Quit
    testing,       \* testConnections commands that have not returned
    saving,        \* saveResults commands that have not returned
    runs,          \* number of runBenchmark commands issued so far
    startPc,       \* position of each startBenchmark command
    runPc,         \* position of each benchmark goroutine
    notified,      \* progress callbacks each goroutine's run has made, per provider
    deferred,      \* the channels each goroutine's deferred closes were given
    chans,         \* the channel pairs made so far
    globalProgressChan, \* which channel globalProgressChan refers to (0 is nil)
    globalResultChan,   \* which channel globalResultChan refers to (0 is nil)
    listeners,     \* listenForUpdates commands that are ticking
    lastApplied    \* the run the last applied message came from, and the run it was applied in

vars == <<config, request, hasCallback, ctxDone, mainPc, mainI, mainWg, mainMu,
          results, ret, runnerPc, runnerI, runnerWg, semaphore, mu,
          runnerResults, taskPc, taskResult, taskRequest, progress,
          resultSet, summaries,
          connInput, connPc, connI, connWg, connMu, connResults, connRet,
          probePc, probeRequest, probeResult, probeErr,
          streamInput, streamResult, tui, progressChan, delivered,
          fileConfig, flags, cfgPc, mgrConfig, svcConfig, cliOut,
          appConfig, model, quitted, testing, saving, runs, startPc, runPc,
          notified, deferred, chans, globalProgressChan, globalResultChan,
          listeners, lastApplied>>

inputVars == <<config, request, hasCallback, tui>>
tuiVars == <<progressChan, delivered>>
mainVars == <<mainPc, mainI, mainWg, mainMu, results, ret>>
runnerVars == <<runnerPc, runnerI, runnerWg, semaphore, mu, runnerResults>>
taskVars == <<taskPc, taskResult, taskRequest>>
sumVars == <<resultSet, summaries>>
connVars == <<connInput, connPc, connI, connWg, connMu, connResults, connRet,
              probePc, probeRequest, probeResult, probeErr>>
benchVars == <<inputVars, ctxDone, mainVars, runnerVars, taskVars, progress, tuiVars>>
\* what a step of a benchmark run leaves alone
streamVars == <<streamInput, streamResult>>
cfgVars == <<fileConfig, flags, cfgPc, mgrConfig, svcConfig, cliOut>>
cmdVars == <<testing, saving, runs, startPc, runPc, notified, deferred, listeners>>
chanVars == <<chans, globalProgressChan, globalResultChan>>
appVars == <<appConfig, model, quitted, cmdVars, chanVars, lastApplied>>
sideVars == <<sumVars, connVars, streamVars, cfgVars, appVars>>

\* ---------------------------------------------------------------- helpers
Prefix(s, n) == [k \in 1..n |-> s[k]]
NameOf(r) == config.Providers[r]
NumProviders == Len(config.Providers)
ModelOf(name) == AllModels[CHOOSE k \in DOMAIN AllNames : AllNames[k] = name]
ProviderOf(r) == [Name |-> NameOf(r), Model |-> ModelOf(NameOf(r))]
Names == {config.Providers[k] : k \in 1..NumProviders}
NoReturn == [results |-> << >>, err |-> "none"]
NoSummaries == [called |-> FALSE]
Nil == "nil"
NoConnInput == [rev |-> "counted", providers |-> << >>]
NoStreamInput ==
    [rev |-> "counted", chunks |-> << >>, endAt |-> 0, err |-> Nil,
     hasCounter |-> FALSE]
NoStreamResult == [called |-> FALSE]
NoFileConfig ==
    [Providers |-> << >>, Concurrency |-> << >>, Requests |-> << >>, Timeout |-> << >>]
NoFlags == [requests |-> 0, concurrent |-> 0]
NoConfig == [set |-> FALSE]
NoCliOut == [ran |-> FALSE]
NoAppConfig == [Providers |-> {}, Requests |-> 0]
\* runBenchmark commands of one session that are modelled
MaxRuns == 2
RunIds == 1..MaxRuns
\* a channel pair as make leaves it: empty and open
NewChans == [progress |-> << >>, progressClosed |-> FALSE,
             result |-> << >>, resultClosed |-> FALSE]
NoMessage == [from |-> 0, during |-> 0]

\* newModel: StateMenu, the cursor on the first item, an empty progress map;
\* results and summaries are named by the run they come from, 0 for nil
newModel ==
    [state |-> "StateMenu",
     menuCursor |-> 0,
     connectionResults |-> Nil,
     connectionDone |-> FALSE,
     benchmarkResults |-> 0,
     benchmarkProgress |-> << >>,
     benchmarkDone |-> FALSE,
     benchmarkError |-> Nil,
     summaries |-> 0,
     saveFilename |-> 0,
     saveError |-> Nil,
     saveSuccess |-> FALSE]

\* no command has been issued, the package-level channels are nil
NothingStarted ==
    /\ testing = 0
    /\ saving = 0
    /\ runs = 0
    /\ startPc = [k \in RunIds |-> "none"]
    /\ runPc = [k \in RunIds |-> "none"]
    /\ notified = [k \in RunIds |-> << >>]
    /\ deferred = [k \in RunIds |-> [progress |-> 0, result |-> 0]]
    /\ chans = [k \in RunIds |-> NewChans]
    /\ globalProgressChan = 0
    /\ globalResultChan = 0
    /\ listeners = 0
    /\ lastApplied = NoMessage

\* tasks of runner r whose pc is in S
TasksIn(r, S) == {i \in TaskIds : taskPc[r][i] \in S}
InFlight(r) == Cardinality(TasksIn(r, {"inflight"}))
AfterCall == {"lock", "notify", "exit", "done"}
\* a Go panic in any goroutine ends the whole process
Alive == mainPc # "panic"

\* ---------------------------------------------------------------- Init
Configs ==
    {c \in [Providers : {Prefix(AllNames, n) : n \in 0..MaxProviders},
            Concurrency : -1..MaxConcurrency,
            Requests : -1..MaxRequests,
            TimeoutOK : BOOLEAN] :
        Len(c.Providers) * c.Requests <= MaxTasks}

\* no goroutine of a run exists yet
RunNotStarted ==
    /\ ctxDone = FALSE
    /\ mainPc = "new"
    /\ mainI = 0
    /\ mainWg = 0
    /\ mainMu = {}
    /\ results = << >>
    /\ ret = NoReturn
    /\ runnerPc = [r \in Runners |-> "idle"]
    /\ runnerI = [r \in Runners |-> 0]
    /\ runnerWg = [r \in Runners |-> 0]
    /\ semaphore = [r \in Runners |-> 0]
    /\ mu = [r \in Runners |-> {}]
    /\ runnerResults = [r \in Runners |-> << >>]
    /\ taskPc = [r \in Runners |-> [i \in TaskIds |-> "none"]]
    /\ taskResult = [r \in Runners |-> [i \in TaskIds |-> NoResult]]
    /\ taskRequest = [r \in Runners |-> [i \in TaskIds |-> NoRequest]]
    /\ progress = [n \in NameSet |-> << >>]
    /\ progressChan = << >>
    /\ delivered = 0

\* no GenerateSummary call is modelled
SumIdle ==
    /\ resultSet = << >>
    /\ summaries = NoSummaries

\* no TestConnections call is modelled
ConnNotStarted ==
    /\ connPc = "loop"
    /\ connI = 0
    /\ connWg = 0
    /\ connMu = {}
    /\ connResults = << >>
    /\ connRet = << >>
    /\ probePc = [r \in Runners |-> "idle"]
    /\ probeRequest = [r \in Runners |-> NoRequest]
    /\ probeResult = [r \in Runners |-> NoResult]
    /\ probeErr = [r \in Runners |-> Nil]

ConnIdle ==
    /\ connInput = NoConnInput
    /\ ConnNotStarted

\* no single streaming call is modelled
\* no command line is modelled
CfgIdle ==
    /\ fileConfig = NoFileConfig
    /\ flags = NoFlags
    /\ cfgPc = "none"
    /\ mgrConfig = NoConfig
    /\ svcConfig = NoConfig
    /\ cliOut = NoCliOut

\* no TUI program is modelled
AppIdle ==
    /\ appConfig = NoAppConfig
    /\ model = [newModel EXCEPT !.state = "none"]
    /\ quitted = FALSE
    /\ NothingStarted

StreamIdle ==
    /\ streamInput = NoStreamInput
    /\ streamResult = NoStreamResult

\* no benchmark run is modelled
BenchIdle ==
    /\ config = [Providers |-> << >>, Concurrency |-> 1, Requests |-> 1,
                 TimeoutOK |-> TRUE]
    /\ request = NoRequest
    /\ hasCallback = FALSE
    /\ tui = FALSE
    /\ RunNotStarted

Init ==
    /\ config \in Configs
    /\ request \in BenchmarkRequests
    /\ hasCallback \in BOOLEAN
    /\ tui = FALSE
    /\ RunNotStarted
    /\ SumIdle
    /\ ConnIdle
    /\ StreamIdle
    /\ CfgIdle
    /\ AppIdle

\* ---------------------------------------------------------------- service construction
\* NewBenchmarkService: the only check is time.ParseDuration(config.Timeout)
NewBenchmarkServiceOK(c) == c.TimeoutOK

NewBenchmarkService ==
    /\ mainPc = "new"
    /\ mainPc' = IF NewBenchmarkServiceOK(config) THEN "loop" ELSE "rejected"
    /\ UNCHANGED <<inputVars, sideVars, tuiVars, ctxDone, mainI, mainWg, mainMu, results, ret,
                   runnerVars, taskVars, progress>>

\* ---------------------------------------------------------------- RunBenchmark
\* for _, provider := range bs.providers { wg.Add(1); go func(p) {...}(provider) }
RunBenchmarkSpawn ==
    /\ mainPc = "loop"
    /\ mainI < NumProviders
    /\ mainI' = mainI + 1
    /\ mainWg' = mainWg + 1
    /\ runnerPc' = [runnerPc EXCEPT ![mainI + 1] = "start"]
    /\ UNCHANGED <<inputVars, sideVars, tuiVars, ctxDone, mainPc, mainMu, results, ret,
                   runnerI, runnerWg, semaphore, mu, runnerResults,
                   taskVars, progress>>

RunBenchmarkLoopEnd ==
    /\ mainPc = "loop"
    /\ mainI >= NumProviders
    /\ mainPc' = "wait"
    /\ UNCHANGED <<inputVars, sideVars, tuiVars, ctxDone, mainI, mainWg, mainMu, results, ret,
                   runnerVars, taskVars, progress>>

\* faulty variant: the wait is skipped
C3_NoWait(counter) == TRUE

\* faulty variant: Wait returns while one goroutine is still running
C21_WaitOneShort(counter) == counter <= 1

\* wg.Wait() returns when the counter is zero
WaitGroupZero(counter) == counter = 0

\* faulty variant: zero providers are reported as an error
C10_ErrOnNoProviders(provs) == IF Len(provs) = 0 THEN "no providers configured" ELSE "nil"

\* faulty variant: the run reports an error value
C33_ErrAlways(provs) == "benchmark failed"

\* error value of "return results, nil"
ReturnErr(provs) == "nil"

\* wg.Wait(); return results, nil
RunBenchmarkReturn ==
    /\ mainPc = "wait"
    /\ WaitGroupZero(mainWg)
    /\ mainPc' = "returned"
    /\ ret' = [results |-> results, err |-> ReturnErr(config.Providers)]
    /\ UNCHANGED <<inputVars, sideVars, tuiVars, ctxDone, mainI, mainWg, mainMu, results,
                   runnerVars, taskVars, progress>>

\* ---------------------------------------------------------------- endpoint client
\* SendChatCompletion: err != nil gives Success=false, Error=err.Error()
SendChatCompletion(name, outcome) ==
    [Provider |-> name,
     Success |-> (outcome = "ok"),
     Error |-> IF outcome = "ok" THEN "" ELSE outcome,
     IsStreaming |-> FALSE]

\* SendChatCompletionStream: same, the record is flagged IsStreaming
SendChatCompletionStream(name, outcome) ==
    [Provider |-> name,
     Success |-> (outcome = "ok"),
     Error |-> IF outcome = "ok" THEN "" ELSE outcome,
     IsStreaming |-> TRUE]

\* openai.ChatCompletionNewParams built by the client: the "counted" revision
\* sends request.Model, the "chunks" revision its provider's Model;
\* MaxTokens is set only when request.MaxTokens > 0
ChatRequest(rev, provider, req) ==
    [Messages |-> req.Messages,
     Model |-> IF rev = "counted" THEN req.Model ELSE provider.Model,
     MaxTokens |-> IF req.MaxTokens > 0 THEN req.MaxTokens ELSE 0]

ClientOutcomes == IF ctxDone THEN {ErrCanceled} ELSE Outcomes

\* ---------------------------------------------------------------- runProviderBenchmark
\* make([]BenchmarkResult, 0, Requests) and make(chan struct{}, Concurrency)
\* panic on a negative size
MakePanics(c) == c.Requests < 0 \/ c.Concurrency < 0

RunnerStart(r) ==
    /\ Alive
    /\ runnerPc[r] = "start"
    /\ IF MakePanics(config)
         THEN /\ mainPc' = "panic"
              /\ UNCHANGED runnerPc
         ELSE /\ runnerPc' = [runnerPc EXCEPT ![r] = "loop"]
              /\ UNCHANGED mainPc
    /\ UNCHANGED <<inputVars, sideVars, tuiVars, ctxDone, mainI, mainWg, mainMu, results, ret,
                   runnerI, runnerWg, semaphore, mu, runnerResults,
                   taskVars, progress>>

\* faulty variant: the loop stops one request short
C1_LoopOneShort(i, c) == i < c.Requests - 1

\* faulty variant: the loop spawns one request too many
C23_LoopOneMore(i, c) == i < c.Requests + 1

\* loop condition of "for i := 0; i < bs.config.Requests; i++"
LoopCond(i, c) == i < c.Requests

\* wg.Add(1); go func(requestNum int) {...}(i)
RunnerSpawn(r) ==
    /\ Alive
    /\ runnerPc[r] = "loop"
    /\ LoopCond(runnerI[r], config)
    /\ runnerWg' = [runnerWg EXCEPT ![r] = @ + 1]
    /\ taskPc' = [taskPc EXCEPT ![r][runnerI[r]] = "acquire"]
    /\ runnerI' = [runnerI EXCEPT ![r] = @ + 1]
    /\ UNCHANGED <<inputVars, sideVars, tuiVars, ctxDone, mainVars, runnerPc, semaphore, mu,
                   runnerResults, taskResult, taskRequest, progress>>

RunnerLoopEnd(r) ==
    /\ Alive
    /\ runnerPc[r] = "loop"
    /\ ~LoopCond(runnerI[r], config)
    /\ runnerPc' = [runnerPc EXCEPT ![r] = "wait"]
    /\ UNCHANGED <<inputVars, sideVars, tuiVars, ctxDone, mainVars, runnerI, runnerWg, semaphore,
                   mu, runnerResults, taskVars, progress>>

\* wg.Wait(); return results
RunnerWait(r) ==
    /\ Alive
    /\ runnerPc[r] = "wait"
    /\ WaitGroupZero(runnerWg[r])
    /\ runnerPc' = [runnerPc EXCEPT ![r] = "lock"]
    /\ UNCHANGED <<inputVars, sideVars, tuiVars, ctxDone, mainVars, runnerI, runnerWg, semaphore,
                   mu, runnerResults, taskVars, progress>>

\* faulty variant: every endpoint's list is stored under the first endpoint's key
C19_FirstKey(m, k, v) ==
    [x \in (DOMAIN m) \cup {AllNames[1]} |-> IF x = AllNames[1] THEN v ELSE m[x]]

\* results[p.Name] = providerResults
MapInsert(m, k, v) == [x \in (DOMAIN m) \cup {k} |-> IF x = k THEN v ELSE m[x]]

\* faulty variant: Lock never waits
C20_NoExclusion(holders) == TRUE

\* mu.Lock() proceeds when nobody holds the mutex
MutexFree(holders) == holders = {}

\* mu.Lock(); results[p.Name] = providerResults
RunnerInsert(r) ==
    /\ Alive
    /\ runnerPc[r] = "lock"
    /\ MutexFree(mainMu)
    /\ mainMu' = mainMu \cup {r}
    /\ results' = MapInsert(results, NameOf(r), runnerResults[r])
    /\ runnerPc' = [runnerPc EXCEPT ![r] = "unlock"]
    /\ UNCHANGED <<inputVars, sideVars, tuiVars, ctxDone, mainPc, mainI, mainWg, ret,
                   runnerI, runnerWg, semaphore, mu, runnerResults,
                   taskVars, progress>>

\* mu.Unlock(); deferred wg.Done() of RunBenchmark's goroutine
RunnerDone(r) ==
    /\ Alive
    /\ runnerPc[r] = "unlock"
    /\ mainMu' = mainMu \ {r}
    /\ mainWg' = mainWg - 1
    /\ runnerPc' = [runnerPc EXCEPT ![r] = "done"]
    /\ UNCHANGED <<inputVars, sideVars, tuiVars, ctxDone, mainPc, mainI, results, ret,
                   runnerI, runnerWg, semaphore, mu, runnerResults,
                   taskVars, progress>>

\* ---------------------------------------------------------------- request goroutine
\* faulty variant: the gate admits one request too many
C2_GateOffByOne(tokens, c) == tokens <= c.Concurrency

\* faulty variant: one admission gate is shared by all endpoints
C22_SharedGate(tokens, c) ==
    Cardinality({p \in Runners \X TaskIds :
                    taskPc[p[1]][p[2]] \in {"inflight", "lock", "notify", "exit"}})
        < c.Concurrency

\* a send on the buffered channel proceeds while it holds fewer than cap tokens
SemaphoreCanSend(tokens, c) == tokens < c.Concurrency

\* faulty variant: the request is passed on as it came in
C24_NoOverride(req, provider) == req

\* providerRequest := request; providerRequest.Model = provider.Model
ModelOverride(req, provider) == [req EXCEPT !.Model = provider.Model]

\* semaphore <- struct{}{}; providerRequest.Model = provider.Model; enter the client
TaskAcquire(r, i) ==
    /\ Alive
    /\ taskPc[r][i] = "acquire"
    /\ SemaphoreCanSend(semaphore[r], config)
    /\ semaphore' = [semaphore EXCEPT ![r] = @ + 1]
    /\ taskRequest' = [taskRequest EXCEPT ![r][i] = ModelOverride(request, ProviderOf(r))]
    /\ taskPc' = [taskPc EXCEPT ![r][i] = "inflight"]
    /\ UNCHANGED <<inputVars, sideVars, tuiVars, ctxDone, mainVars, runnerPc, runnerI, runnerWg,
                   mu, runnerResults, taskResult, progress>>

\* result = service.SendChatCompletion[Stream](ctx, providerRequest)
ClientCall(name, stream, outcome) ==
    IF stream THEN SendChatCompletionStream(name, outcome)
              ELSE SendChatCompletion(name, outcome)

TaskCallReturn(r, i) ==
    /\ Alive
    /\ taskPc[r][i] = "inflight"
    /\ \E o \in ClientOutcomes :
          taskResult' = [taskResult EXCEPT
                            ![r][i] = ClientCall(NameOf(r), taskRequest[r][i].Stream, o)]
    /\ taskPc' = [taskPc EXCEPT ![r][i] = "lock"]
    /\ UNCHANGED <<inputVars, sideVars, tuiVars, ctxDone, mainVars, runnerVars, taskRequest,
                   progress>>

\* faulty variant: a failed call is dropped instead of recorded
C4_DropFailures(rs, res) == IF res.Success THEN Append(rs, res) ELSE rs

\* results = append(results, result)
AppendResult(rs, res) == Append(rs, res)

\* mu.Lock(); results = append(results, result)
TaskAppend(r, i) ==
    /\ Alive
    /\ taskPc[r][i] = "lock"
    /\ MutexFree(mu[r])
    /\ mu' = [mu EXCEPT ![r] = @ \cup {i}]
    /\ runnerResults' = [runnerResults EXCEPT
                            ![r] = AppendResult(@, taskResult[r][i])]
    /\ taskResult' = [taskResult EXCEPT ![r][i] = NoResult]
    /\ taskPc' = [taskPc EXCEPT ![r][i] = "notify"]
    /\ UNCHANGED <<inputVars, sideVars, tuiVars, ctxDone, mainVars, runnerPc, runnerI, runnerWg,
                   semaphore, taskRequest, progress>>

\* faulty variant: the goroutine's request number is reported instead of len(results)
C5_ReportRequestNum(rs, requestNum, c) ==
    [completed |-> requestNum + 1, total |-> c.Requests]

\* arguments of progressCallback(provider.Name, len(results), bs.config.Requests)
ProgressArgs(rs, requestNum, c) == [completed |-> Len(rs), total |-> c.Requests]

\* faulty variant: only the completion of the whole batch is reported
C6_OnlyFinal(rs, c) == hasCallback /\ Len(rs) = c.Requests

\* if progressCallback != nil
CallbackInvoked(rs, c) == hasCallback

\* benchmarkProgressMsg{provider, completed, total}
ProgressMsg(name, args) ==
    [provider |-> name, completed |-> args.completed, total |-> args.total]

\* faulty variant: a plain send, which waits while the channel is full
C29_BlockingSend(chan) == Len(chan) < ProgressSlots

\* the TUI's callback is a select with a default case: it returns at once
CallbackReturns(chan) == TRUE

\* select { case globalProgressChan <- msg: default: }: the message is
\* buffered when a slot is free and skipped when the channel is full
ChanOffer(chan, msg) == IF Len(chan) < ProgressSlots THEN Append(chan, msg) ELSE chan

\* if progressCallback != nil { progressCallback(...) }; mu.Unlock()
TaskNotify(r, i) ==
    /\ Alive
    /\ taskPc[r][i] = "notify"
    /\ (CallbackInvoked(runnerResults[r], config) /\ tui) => CallbackReturns(progressChan)
    /\ progress' = IF CallbackInvoked(runnerResults[r], config)
                     THEN [progress EXCEPT ![NameOf(r)] =
                              Append(@, ProgressArgs(runnerResults[r], i, config))]
                     ELSE progress
    /\ progressChan' =
          IF CallbackInvoked(runnerResults[r], config) /\ tui
            THEN ChanOffer(progressChan,
                           ProgressMsg(NameOf(r), ProgressArgs(runnerResults[r], i, config)))
            ELSE progressChan
    /\ mu' = [mu EXCEPT ![r] = @ \ {i}]
    /\ taskPc' = [taskPc EXCEPT ![r][i] = "exit"]
    /\ UNCHANGED <<inputVars, sideVars, delivered, ctxDone, mainVars, runnerPc, runnerI,
                   runnerWg, semaphore, runnerResults, taskResult, taskRequest>>

\* listenForUpdates' tick: case progress, ok := <-globalProgressChan
ListenForUpdates ==
    /\ tui
    /\ progressChan # << >>
    /\ progressChan' = Tail(progressChan)
    /\ delivered' = delivered + 1
    /\ UNCHANGED <<inputVars, sideVars, ctxDone, mainVars, runnerVars, taskVars,
                   progress>>

\* faulty variant: the token is never taken back out of the channel
C7_NoRelease(tokens) == tokens

\* tokens left in the channel after the deferred "<-semaphore"
SemaphoreReceive(tokens) == tokens - 1

\* the deferred calls at goroutine exit: <-semaphore, then wg.Done()
TaskExit(r, i) ==
    /\ Alive
    /\ taskPc[r][i] = "exit"
    /\ semaphore' = [semaphore EXCEPT ![r] = SemaphoreReceive(@)]
    /\ runnerWg' = [runnerWg EXCEPT ![r] = @ - 1]
    /\ taskPc' = [taskPc EXCEPT ![r][i] = "done"]
    /\ UNCHANGED <<inputVars, sideVars, tuiVars, ctxDone, mainVars, runnerPc, runnerI,
                   mu, runnerResults, taskResult, taskRequest, progress>>

\* ---------------------------------------------------------------- cancellation
\* the caller cancels ctx while RunBenchmark is running
Cancel ==
    /\ mainPc \in {"loop", "wait"}
    /\ ~ctxDone
    /\ ctxDone' = TRUE
    /\ UNCHANGED <<inputVars, sideVars, tuiVars, mainVars, runnerVars, taskVars, progress>>

\* ---------------------------------------------------------------- specification
RunnerStep(r) ==
    \/ RunnerStart(r)
    \/ RunnerSpawn(r)
    \/ RunnerLoopEnd(r)
    \/ RunnerWait(r)
    \/ RunnerInsert(r)
    \/ RunnerDone(r)

TaskStep(r, i) ==
    \/ TaskAcquire(r, i)
    \/ TaskCallReturn(r, i)
    \/ TaskAppend(r, i)
    \/ TaskNotify(r, i)
    \/ TaskExit(r, i)

Next ==
    \/ NewBenchmarkService
    \/ RunBenchmarkSpawn
    \/ RunBenchmarkLoopEnd
    \/ RunBenchmarkReturn
    \/ Cancel
    \/ \E r \in Runners : RunnerStep(r)
    \/ \E r \in Runners : \E i \in TaskIds : TaskStep(r, i)

Spec == Init /\ [][Next]_vars

\* a run started by the TUI: context.Background(), the request built from the
\* flags (no model), the callback that feeds globalProgressChan
TuiInit ==
    /\ config \in Configs
    /\ request \in {q \in BenchmarkRequests : q.Model = ""}
    /\ hasCallback = TRUE
    /\ tui = TRUE
    /\ RunNotStarted
    /\ SumIdle
    /\ ConnIdle
    /\ StreamIdle
    /\ CfgIdle
    /\ AppIdle

TuiNext ==
    \/ NewBenchmarkService
    \/ RunBenchmarkSpawn
    \/ RunBenchmarkLoopEnd
    \/ RunBenchmarkReturn
    \/ ListenForUpdates
    \/ \E r \in Runners : RunnerStep(r)
    \/ \E r \in Runners : \E i \in TaskIds : TaskStep(r, i)

TuiSpec == TuiInit /\ [][TuiNext]_vars

\* the program's own steps (the caller's cancellation is the environment's)
Program ==
    \/ NewBenchmarkService
    \/ RunBenchmarkSpawn
    \/ RunBenchmarkLoopEnd
    \/ RunBenchmarkReturn
    \/ \E r \in Runners : RunnerStep(r)
    \/ \E r \in Runners : \E i \in TaskIds : TaskStep(r, i)

\* the Go scheduler keeps running runnable goroutines, and every client call
\* returns (each call carries the per-request timeout)
FairSpec == Init /\ [][Next]_vars /\ WF_vars(Program)

\* ---------------------------------------------------------------- GenerateSummary
\* A time.Duration is an integer (units of time); integer division truncates.
\* A float64 is modelled as an exact rational [num, den] (rounding is not
\* modelled); the throughput of a record is a whole number of tokens/sec.
MaxRecords == 3

Rat(n, d) == [num |-> n, den |-> d]
RatEq(a, b) == a.num * b.den = b.num * a.den

\* values the endpoint client measures
ResponseTimes == {1, 2}
OutputTokens == {0, 2}
Throughputs == {0, 1, 2}

\* records SendChatCompletion can return (lines 55-57, 91-99, 117)
PlainRecords ==
    {[Success |-> ok, ResponseTime |-> rt,
      TokensUsed |-> IF ok THEN 1 + out ELSE 0,
      IsStreaming |-> FALSE, TimeToFirstToken |-> 0, TokenThroughput |-> 0,
      StreamingTokens |-> 0] :
        ok \in BOOLEAN, rt \in ResponseTimes, out \in OutputTokens}

\* records SendChatCompletionStream can return: the first token arrives within
\* the response time; tokens are counted from the content, so no content means
\* no tokens; a throughput needs a first token and a positive token count
StreamRecords ==
    {r \in [Success : BOOLEAN, ResponseTime : ResponseTimes,
            TokensUsed : 0..3, IsStreaming : {TRUE},
            TimeToFirstToken : {0} \cup ResponseTimes,
            TokenThroughput : Throughputs, StreamingTokens : OutputTokens] :
        /\ r.TimeToFirstToken <= r.ResponseTime
        /\ r.TimeToFirstToken = 0 => r.StreamingTokens = 0
        /\ r.TokenThroughput > 0 =>
              (r.TimeToFirstToken > 0 /\ r.StreamingTokens > 0)
        /\ r.Success => r.TokensUsed = 1 + r.StreamingTokens
        /\ ~r.Success =>
              (r.TokensUsed = 0 /\ r.StreamingTokens = 0 /\ r.TokenThroughput = 0)}

\* sequences of at most n elements of S
SeqUpTo(S, n) == UNION {[1..k -> S] : k \in 0..n}

\* result maps RunBenchmark can hand to GenerateSummary: one request mode per
\* run, at most MaxRecords records in all
ResultSets ==
    UNION {
        {[n \in {"p1"} |-> l] : l \in SeqUpTo(Recs, MaxRecords)} \cup
        {[n \in {"p1", "p2"} |-> IF n = "p1" THEN l[1] ELSE l[2]] :
            l \in {x \in SeqUpTo(Recs, MaxRecords - 1) \X SeqUpTo(Recs, 1) :
                      Len(x[1]) + Len(x[2]) <= MaxRecords}}
        : Recs \in {PlainRecords, StreamRecords}}

\* the zero values of the loop's local variables (lines 133-144)
ZeroAcc ==
    [totalResponseTime |-> 0, totalTokens |-> 0, minTime |-> 0, maxTime |-> 0,
     successCount |-> 0, isStreaming |-> FALSE, totalTTFT |-> 0, minTTFT |-> 0,
     maxTTFT |-> 0, totalThroughput |-> 0, minThroughput |-> 0,
     maxThroughput |-> 0, streamingCount |-> 0]

\* if result.Success { successCount++ ... }
CountSuccess(acc, result) ==
    IF result.Success THEN [acc EXCEPT !.successCount = @ + 1] ELSE acc

\* faulty variant: a streaming record contributes both token fields
C14_BothFields(acc, result) ==
    IF result.IsStreaming
      THEN [acc EXCEPT !.totalTokens = @ + result.StreamingTokens + result.TokensUsed,
                       !.isStreaming = TRUE]
      ELSE [acc EXCEPT !.totalTokens = @ + result.TokensUsed]

\* totalTokens += StreamingTokens (streaming) or TokensUsed (otherwise)
CountTokens(acc, result) ==
    IF result.IsStreaming
      THEN [acc EXCEPT !.totalTokens = @ + result.StreamingTokens,
                       !.isStreaming = TRUE]
      ELSE [acc EXCEPT !.totalTokens = @ + result.TokensUsed]

\* faulty variant: the bounds are seeded by the first record of the list only
\* (a zero default otherwise), as if by "i == 0"
C15_SeedByZero(acc, result) ==
    IF result.TimeToFirstToken > 0
      THEN LET n == acc.streamingCount + 1
               t == result.TimeToFirstToken
           IN [acc EXCEPT !.totalTTFT = @ + t,
                          !.streamingCount = n,
                          !.minTTFT = IF t < @ THEN t ELSE @,
                          !.maxTTFT = IF t > @ THEN t ELSE @]
      ELSE acc

\* if result.TimeToFirstToken > 0 { ... streamingCount++ ... }
TrackTTFT(acc, result) ==
    IF result.TimeToFirstToken > 0
      THEN LET n == acc.streamingCount + 1
               t == result.TimeToFirstToken
           IN [acc EXCEPT !.totalTTFT = @ + t,
                          !.streamingCount = n,
                          !.minTTFT = IF n = 1 \/ t < @ THEN t ELSE @,
                          !.maxTTFT = IF n = 1 \/ t > @ THEN t ELSE @]
      ELSE acc

\* if result.TokenThroughput > 0 { ... } : the bounds are seeded when
\* streamingCount == 1, the counter of the TTFT block
TrackThroughput(acc, result) ==
    IF result.TokenThroughput > 0
      THEN LET t == result.TokenThroughput
           IN [acc EXCEPT !.totalThroughput = @ + t,
                          !.minThroughput =
                              IF acc.streamingCount = 1 \/ t < @ THEN t ELSE @,
                          !.maxThroughput =
                              IF acc.streamingCount = 1 \/ t > @ THEN t ELSE @]
      ELSE acc

\* faulty variant: a failed call's response time is left out
C13_SuccessOnly(acc, i, result) ==
    IF result.Success
      THEN LET t == result.ResponseTime
           IN [acc EXCEPT !.totalResponseTime = @ + t,
                          !.minTime = IF i = 0 \/ t < @ THEN t ELSE @,
                          !.maxTime = IF i = 0 \/ t > @ THEN t ELSE @]
      ELSE acc

\* totalResponseTime += ResponseTime; the record with i == 0 seeds min and max
TrackResponseTime(acc, i, result) ==
    LET t == result.ResponseTime
    IN [acc EXCEPT !.totalResponseTime = @ + t,
                   !.minTime = IF i = 0 \/ t < @ THEN t ELSE @,
                   !.maxTime = IF i = 0 \/ t > @ THEN t ELSE @]

\* faulty variant: the Success flag is not looked at
C11_CountAll(acc, i, result) ==
    TrackResponseTime(CountTokens([acc EXCEPT !.successCount = @ + 1], result),
                      i, result)

\* the body of "for i, result := range providerResults"
LoopBody(acc, i, result) ==
    LET counted ==
            IF result.Success
              THEN LET a1 == CountTokens(CountSuccess(acc, result), result)
                   IN IF result.IsStreaming
                        THEN TrackThroughput(TrackTTFT(a1, result), result)
                        ELSE a1
              ELSE acc
    IN TrackResponseTime(counted, i, result)

RECURSIVE SummaryLoop(_, _, _)
SummaryLoop(acc, providerResults, i) ==
    IF i >= Len(providerResults)
      THEN acc
      ELSE SummaryLoop(LoopBody(acc, i, providerResults[i + 1]),
                       providerResults, i + 1)

\* faulty variant: the division is not guarded and the rate is a fraction of 1
C12_Fraction(failed, total) == Rat(failed, total)

\* float64(FailedRequests) / float64(TotalRequests) * 100, inside "if TotalRequests > 0"
ErrorRateOf(failed, total) ==
    IF total > 0 THEN Rat(failed * 100, total) ELSE Rat(0, 1)

\* lines 128-131 and 194-221 for one provider
Summarize(providerName, providerResults) ==
    LET acc == SummaryLoop(ZeroAcc, providerResults, 0)
        total == Len(providerResults)
        failed == total - acc.successCount
        hasStats == acc.isStreaming /\ acc.streamingCount > 0
    IN [Provider |-> providerName,
        TotalRequests |-> total,
        SuccessfulReqs |-> acc.successCount,
        FailedRequests |-> failed,
        TotalTokens |-> acc.totalTokens,
        AvgResponseTime |-> IF total > 0 THEN acc.totalResponseTime \div total ELSE 0,
        ErrorRate |-> ErrorRateOf(failed, total),
        MinResponseTime |-> acc.minTime,
        MaxResponseTime |-> acc.maxTime,
        IsStreaming |-> acc.isStreaming,
        AvgTimeToFirstToken |->
            IF hasStats THEN acc.totalTTFT \div acc.streamingCount ELSE 0,
        MinTimeToFirstToken |-> IF hasStats THEN acc.minTTFT ELSE 0,
        MaxTimeToFirstToken |-> IF hasStats THEN acc.maxTTFT ELSE 0,
        AvgTokenThroughput |->
            IF hasStats THEN Rat(acc.totalThroughput, acc.streamingCount)
                        ELSE Rat(0, 1),
        MinTokenThroughput |-> IF hasStats THEN acc.minThroughput ELSE 0,
        MaxTokenThroughput |-> IF hasStats THEN acc.maxThroughput ELSE 0]

GenerateSummary(rs) == [n \in DOMAIN rs |-> Summarize(n, rs[n])]

\* summaries := bs.GenerateSummary(results)
GenerateSummaryCall ==
    /\ summaries = NoSummaries
    /\ summaries' = GenerateSummary(resultSet)
    /\ UNCHANGED <<benchVars, cfgVars, appVars, connVars, streamVars, resultSet>>

\* a finished run handed its result map to the caller
SumInit ==
    /\ config = [Providers |-> << >>, Concurrency |-> 1, Requests |-> 1,
                 TimeoutOK |-> TRUE]
    /\ request = NoRequest
    /\ hasCallback = FALSE
    /\ tui = FALSE
    /\ RunNotStarted
    /\ ConnIdle
    /\ StreamIdle
    /\ CfgIdle
    /\ AppIdle
    /\ resultSet \in ResultSets
    /\ summaries = NoSummaries

SumNext == GenerateSummaryCall

SumSpec == SumInit /\ [][SumNext]_vars

\* ---------------------------------------------------------------- TestConnections
\* provider entries a configuration can hold: the "counted" revision reads
\* the list Provider.Models, the "chunks" revision the single Provider.Model
ProviderEntries(rev) ==
    IF rev = "counted"
      THEN {[Name |-> n, Model |-> "", Models |-> ms] :
               n \in NameSet, ms \in {<< >>, <<"m1">>, <<"m2", "m1">>}}
      ELSE {[Name |-> n, Model |-> m, Models |-> << >>] :
               n \in NameSet, m \in {"", "m1"}}

ConnInputs ==
    UNION {{[rev |-> rev, providers |-> ps] :
               ps \in {x \in [1..n -> ProviderEntries(rev)] :
                          \A k \in 1..n : x[k].Name = AllNames[k]}} :
           rev \in ClientRevisions, n \in 0..MaxProviders}

ConnProvider(r) == connInput.providers[r]
ConnNames == {connInput.providers[k].Name : k \in 1..Len(connInput.providers)}

\* for _, provider := range bs.providers { wg.Add(1); go func(p) {...}(provider) }
TestConnectionsSpawn ==
    /\ connPc = "loop"
    /\ connI < Len(connInput.providers)
    /\ connI' = connI + 1
    /\ connWg' = connWg + 1
    /\ probePc' = [probePc EXCEPT ![connI + 1] = "start"]
    /\ UNCHANGED <<benchVars, cfgVars, appVars, sumVars, streamVars, connInput, connPc, connMu, connResults,
                   connRet, probeRequest, probeResult, probeErr>>

TestConnectionsLoopEnd ==
    /\ connPc = "loop"
    /\ connI >= Len(connInput.providers)
    /\ connPc' = "wait"
    /\ UNCHANGED <<benchVars, cfgVars, appVars, sumVars, streamVars, connInput, connI, connWg, connMu,
                   connResults, connRet, probePc, probeRequest, probeResult,
                   probeErr>>

\* if len(s.provider.Models) == 0 { return fmt.Errorf("no models configured ...") }
ErrNoModels == "no models configured for provider"
NoModels(rev, provider) == rev = "counted" /\ Len(provider.Models) = 0

\* testRequest := models.BenchmarkRequest{...}
TestRequest(rev, provider) ==
    [Messages |-> <<[Role |-> "user",
                     Content |-> "Hello, this is a connection test. Please respond with 'OK'."]>>,
     Model |-> IF rev = "counted" THEN provider.Models[1] ELSE provider.Model,
     MaxTokens |-> 20,
     Stream |-> FALSE]

\* service := NewOpenAIService(p, bs.timeout); TestConnection up to the call
ProbeStart(r) ==
    /\ probePc[r] = "start"
    /\ IF NoModels(connInput.rev, ConnProvider(r))
         THEN /\ probeErr' = [probeErr EXCEPT ![r] = ErrNoModels]
              /\ probePc' = [probePc EXCEPT ![r] = "lock"]
              /\ UNCHANGED probeRequest
         ELSE /\ probeRequest' = [probeRequest EXCEPT
                                     ![r] = TestRequest(connInput.rev, ConnProvider(r))]
              /\ probePc' = [probePc EXCEPT ![r] = "inflight"]
              /\ UNCHANGED probeErr
    /\ UNCHANGED <<benchVars, cfgVars, appVars, sumVars, streamVars, connInput, connPc, connI, connWg, connMu,
                   connResults, connRet, probeResult>>

\* faulty variant: the probe's failure is swallowed
C25_AlwaysNil(result) == Nil

\* if !result.Success { return fmt.Errorf("connection test failed: %s", ...) }; return nil
TestConnectionErr(result) ==
    IF ~result.Success THEN "connection test failed" ELSE Nil

\* result := s.SendChatCompletion(timeoutCtx, testRequest) returns
ProbeCallReturn(r) ==
    /\ probePc[r] = "inflight"
    /\ \E o \in ClientOutcomes :
          LET result == SendChatCompletion(ConnProvider(r).Name, o)
          IN /\ probeResult' = [probeResult EXCEPT ![r] = result]
             /\ probeErr' = [probeErr EXCEPT ![r] = TestConnectionErr(result)]
    /\ probePc' = [probePc EXCEPT ![r] = "lock"]
    /\ UNCHANGED <<benchVars, cfgVars, appVars, sumVars, streamVars, connInput, connPc, connI, connWg, connMu,
                   connResults, connRet, probeRequest>>

\* mu.Lock(); results[p.Name] = err
ProbeInsert(r) ==
    /\ probePc[r] = "lock"
    /\ MutexFree(connMu)
    /\ connMu' = connMu \cup {r}
    /\ connResults' = MapInsert(connResults, ConnProvider(r).Name, probeErr[r])
    /\ probePc' = [probePc EXCEPT ![r] = "unlock"]
    /\ UNCHANGED <<benchVars, cfgVars, appVars, sumVars, streamVars, connInput, connPc, connI, connWg, connRet,
                   probeRequest, probeResult, probeErr>>

\* mu.Unlock(); deferred wg.Done()
ProbeDone(r) ==
    /\ probePc[r] = "unlock"
    /\ connMu' = connMu \ {r}
    /\ connWg' = connWg - 1
    /\ probePc' = [probePc EXCEPT ![r] = "done"]
    /\ UNCHANGED <<benchVars, cfgVars, appVars, sumVars, streamVars, connInput, connPc, connI, connResults,
                   connRet, probeRequest, probeResult, probeErr>>

\* wg.Wait(); return results
TestConnectionsReturn ==
    /\ connPc = "wait"
    /\ WaitGroupZero(connWg)
    /\ connPc' = "returned"
    /\ connRet' = connResults
    /\ UNCHANGED <<benchVars, cfgVars, appVars, sumVars, streamVars, connInput, connI, connWg, connMu,
                   connResults, probePc, probeRequest, probeResult, probeErr>>

ConnInit ==
    /\ BenchIdle
    /\ SumIdle
    /\ StreamIdle
    /\ CfgIdle
    /\ AppIdle
    /\ connInput \in ConnInputs
    /\ ConnNotStarted

ProbeStep(r) ==
    \/ ProbeStart(r)
    \/ ProbeCallReturn(r)
    \/ ProbeInsert(r)
    \/ ProbeDone(r)

ConnNext ==
    \/ TestConnectionsSpawn
    \/ TestConnectionsLoopEnd
    \/ TestConnectionsReturn
    \/ \E r \in Runners : ProbeStep(r)

ConnSpec == ConnInit /\ [][ConnNext]_vars

\* ---------------------------------------------------------------- one streaming call
\* bounds of the streams looked at
MaxChunks == 2
MaxTick == 4
\* time.Duration counted in ticks of half a millisecond, so that a duration
\* below one millisecond is not zero
TicksPerMs == 2
TicksPerSecond == 1000 * TicksPerMs
\* d.Milliseconds() truncates
Milliseconds(d) == d \div TicksPerMs

\* Delta.Content of a chunk: a text is a sequence of characters, "" is << >>
Fragments == {<< >>, <<"a">>, <<" ", "a">>, <<"a", " ", "a">>}
\* a text of n one-letter words
Words(n) == [k \in 1..(2 * n - 1) |-> IF k % 2 = 1 THEN "a" ELSE " "]

\* what the transport delivers to one call: chunks in order of arrival (at =
\* time since the call's start), the time stream.Next() returns false, and
\* stream.Err(); hasCounter: utils.NewTokenCounter() succeeded
StreamInputs ==
    {in \in [rev : ClientRevisions,
             chunks : SeqUpTo([at : 1..MaxTick, content : Fragments], MaxChunks),
             endAt : 1..MaxTick,
             err : {Nil, ErrDeadline},
             hasCounter : BOOLEAN] :
        /\ \A k \in 1..Len(in.chunks) : in.chunks[k].at <= in.endAt
        /\ \A k \in 1..(Len(in.chunks) - 1) : in.chunks[k].at <= in.chunks[k + 1].at
        /\ in.rev = "chunks" => ~in.hasCounter}
    \cup
    {[rev |-> rev,
      chunks |-> <<[at |-> 50 * TicksPerMs, content |-> Words(100)]>>,
      endAt |-> 550 * TicksPerMs,
      err |-> Nil,
      hasCounter |-> (rev = "counted")] : rev \in ClientRevisions}

\* TokenCounter.CountTokens: a function of the text alone; here the number
\* of words
CountTextTokens(text) ==
    Cardinality({k \in 1..Len(text) :
                    text[k] # " " /\ (k = 1 \/ text[k - 1] = " ")})
\* TokenCounter.CountChatCompletionTokens of the request's messages
InputTokens == 1

\* the locals before "for stream.Next()"
ZeroStream ==
    [responseContent |-> << >>, count |-> 0, firstToken |-> TRUE,
     firstTokenTime |-> 0, lastTokenTime |-> 0, TimeToFirstToken |-> 0]

\* body of the loop: a chunk with Delta.Content != "" sets the first-token
\* time once, is appended to responseContent and counted; the "chunks"
\* revision also keeps lastTokenTime
ProcessChunk(acc, chunk) ==
    IF chunk.content # << >>
      THEN [acc EXCEPT
               !.firstTokenTime = IF acc.firstToken THEN chunk.at ELSE @,
               !.TimeToFirstToken = IF acc.firstToken THEN chunk.at ELSE @,
               !.firstToken = FALSE,
               !.responseContent = @ \o chunk.content,
               !.count = @ + 1,
               !.lastTokenTime = chunk.at]
      ELSE acc

RECURSIVE StreamLoop(_, _, _)
StreamLoop(acc, chunks, k) ==
    IF k > Len(chunks) THEN acc
    ELSE StreamLoop(ProcessChunk(acc, chunks[k]), chunks, k + 1)

\* faulty variant: the streaming metrics are set before the error check
C36_MetricsBeforeCheck(acc, in) ==
    [Success |-> FALSE, Error |-> in.err, IsStreaming |-> TRUE,
     ResponseTime |-> in.endAt, Response |-> << >>, TokensUsed |-> 0,
     TimeToFirstToken |-> acc.TimeToFirstToken,
     StreamingDuration |-> IF ~acc.firstToken THEN in.endAt - acc.firstTokenTime ELSE 0,
     StreamingTokens |-> acc.count, TokenThroughput |-> Rat(0, 1)]

\* if err := stream.Err(); err != nil { Success = false ... return result }
StreamFailed(acc, in) ==
    [Success |-> FALSE, Error |-> in.err, IsStreaming |-> TRUE,
     ResponseTime |-> in.endAt, Response |-> << >>, TokensUsed |-> 0,
     TimeToFirstToken |-> acc.TimeToFirstToken, StreamingDuration |-> 0,
     StreamingTokens |-> 0, TokenThroughput |-> Rat(0, 1)]

\* "counted" revision: throughput needs at least one whole millisecond and
\* a positive token count
ThroughputGuardCounted(streamingDuration, outputTokens) ==
    Milliseconds(streamingDuration) > 0 /\ outputTokens > 0

\* "counted" revision after the loop: tokens are counted on the assembled
\* text, the duration runs from the first token to streamEndTime
FinishCounted(acc, in) ==
    LET outputTokens ==
            IF in.hasCounter /\ acc.responseContent # << >>
              THEN CountTextTokens(acc.responseContent) ELSE 0
        streamingDuration ==
            IF ~acc.firstToken THEN in.endAt - acc.firstTokenTime ELSE 0
    IN [Success |-> TRUE, Error |-> "", IsStreaming |-> TRUE,
        ResponseTime |-> in.endAt, Response |-> acc.responseContent,
        TokensUsed |-> IF in.hasCounter THEN InputTokens + outputTokens ELSE 0,
        TimeToFirstToken |-> acc.TimeToFirstToken,
        StreamingDuration |-> streamingDuration,
        StreamingTokens |-> outputTokens,
        TokenThroughput |->
            IF ~acc.firstToken
                  /\ ThroughputGuardCounted(streamingDuration, outputTokens)
              THEN Rat(outputTokens * TicksPerSecond, streamingDuration)
              ELSE Rat(0, 1)]

\* "chunks" revision after the loop: the tokens are the counted chunks, the
\* duration runs from the first to the last token, and any positive
\* duration gives a throughput
FinishChunks(acc, in) ==
    LET streamingDuration ==
            IF ~acc.firstToken THEN acc.lastTokenTime - acc.firstTokenTime ELSE 0
    IN [Success |-> TRUE, Error |-> "", IsStreaming |-> TRUE,
        ResponseTime |-> in.endAt, Response |-> acc.responseContent,
        TokensUsed |-> 0,
        TimeToFirstToken |-> acc.TimeToFirstToken,
        StreamingDuration |-> streamingDuration,
        StreamingTokens |-> acc.count,
        TokenThroughput |->
            IF ~acc.firstToken /\ streamingDuration > 0
              THEN Rat(acc.count * TicksPerSecond, streamingDuration)
              ELSE Rat(0, 1)]

\* the BenchmarkResult of one SendChatCompletionStream call
StreamResult(in) ==
    LET acc == StreamLoop(ZeroStream, in.chunks, 1)
    IN IF in.err # Nil THEN StreamFailed(acc, in)
       ELSE IF in.rev = "counted" THEN FinishCounted(acc, in)
       ELSE FinishChunks(acc, in)

\* result = service.SendChatCompletionStream(ctx, providerRequest)
StreamCall ==
    /\ streamResult = NoStreamResult
    /\ streamResult' = StreamResult(streamInput)
    /\ UNCHANGED <<benchVars, cfgVars, appVars, sumVars, connVars, streamInput>>

StreamInit ==
    /\ BenchIdle
    /\ SumIdle
    /\ ConnIdle
    /\ CfgIdle
    /\ AppIdle
    /\ streamInput \in StreamInputs
    /\ streamResult = NoStreamResult

StreamNext == StreamCall

StreamSpec == StreamInit /\ [][StreamNext]_vars

\* --------------------------------------------------------- the TUI program
\* progress notifications of one run of the TUI's service (providers * requests)
MaxShown == 2
\* filename lengths that are modelled
MaxFilename == 1
\* commands of one kind (testConnections, saveResults) pending at a time
MaxPending == 1
\* globalResultChan = make(chan tea.Msg, 1)
ResultSlots == 1

\* the service passed config validation: a provider and a request at least
AppConfigs ==
    {c \in [Providers : {{AllNames[j] : j \in 1..n} : n \in 1..MaxProviders},
            Requests : 1..MaxShown] :
        Cardinality(c.Providers) * c.Requests <= MaxShown}

\* key names of tea.KeyMsg.String(); "x" stands for any other printable key
Keys == {"ctrl+c", "q", "up", "k", "down", "j", "enter", " ", "esc", "b", "s",
         "backspace", "x"}

\* menuItems: "Test Connections", "Run Benchmark", "Quit"
MenuItems == 3

NoCmd == "nil"
Quit == "tea.Quit"

\* handleMenuKeys
handleMenuKeys(m, key) ==
    IF key \in {"ctrl+c", "q"} THEN [m |-> m, cmd |-> Quit]
    ELSE IF key \in {"up", "k"}
      THEN [m |-> [m EXCEPT !.menuCursor = IF @ > 0 THEN @ - 1 ELSE @], cmd |-> NoCmd]
    ELSE IF key \in {"down", "j"}
      THEN [m |-> [m EXCEPT !.menuCursor = IF @ < MenuItems - 1 THEN @ + 1 ELSE @],
            cmd |-> NoCmd]
    ELSE IF key \in {"enter", " "}
      THEN CASE m.menuCursor = 0 ->
                  [m |-> [m EXCEPT !.state = "StateConnectionTest",
                                   !.connectionDone = FALSE],
                   cmd |-> "testConnections"]
             [] m.menuCursor = 1 ->
                  [m |-> [m EXCEPT !.state = "StateBenchmarkRunning",
                                   !.benchmarkDone = FALSE,
                                   !.benchmarkProgress = << >>],
                   cmd |-> "runBenchmark"]
             [] OTHER -> [m |-> m, cmd |-> Quit]
    ELSE [m |-> m, cmd |-> NoCmd]

\* handleConnectionTestKeys
handleConnectionTestKeys(m, key) ==
    IF key \in {"ctrl+c", "q"} THEN [m |-> m, cmd |-> Quit]
    ELSE IF key \in {"esc", "b"} /\ m.connectionDone
      THEN [m |-> [m EXCEPT !.state = "StateMenu"], cmd |-> NoCmd]
    ELSE [m |-> m, cmd |-> NoCmd]

\* faulty variant: the benchmark screen takes esc and b like the other screens
C32_BackToMenu(m, key) ==
    IF key \in {"ctrl+c", "q"} THEN [m |-> m, cmd |-> Quit]
    ELSE IF key \in {"esc", "b"}
      THEN [m |-> [m EXCEPT !.state = "StateMenu"], cmd |-> NoCmd]
    ELSE [m |-> m, cmd |-> NoCmd]

\* handleBenchmarkKeys
handleBenchmarkKeys(m, key) ==
    IF key \in {"ctrl+c", "q"} THEN [m |-> m, cmd |-> Quit]
    ELSE [m |-> m, cmd |-> NoCmd]

\* handleResultsKeys
handleResultsKeys(m, key) ==
    IF key \in {"ctrl+c", "q"} THEN [m |-> m, cmd |-> Quit]
    ELSE IF key \in {"esc", "b"}
      THEN [m |-> [m EXCEPT !.state = "StateMenu"], cmd |-> NoCmd]
    ELSE IF key = "s"
      THEN [m |-> [m EXCEPT !.state = "StateSavePrompt", !.saveFilename = 0,
                            !.saveError = Nil, !.saveSuccess = FALSE],
            cmd |-> NoCmd]
    ELSE [m |-> m, cmd |-> NoCmd]

\* handleSavePromptKeys; every key name but "ctrl+c", "enter", "esc", "up",
\* "down" and "backspace" is one character long
handleSavePromptKeys(m, key) ==
    IF key \in {"ctrl+c", "q"} THEN [m |-> m, cmd |-> Quit]
    ELSE IF key = "esc"
      THEN [m |-> [m EXCEPT !.state = "StateResults", !.saveFilename = 0,
                            !.saveError = Nil, !.saveSuccess = FALSE],
            cmd |-> NoCmd]
    ELSE IF key = "enter"
      THEN [m |-> m, cmd |-> IF m.saveFilename # 0 THEN "saveResults" ELSE NoCmd]
    ELSE IF key = "backspace"
      THEN [m |-> [m EXCEPT !.saveFilename = IF @ > 0 THEN @ - 1 ELSE @], cmd |-> NoCmd]
    ELSE IF key \in {"k", "j", " ", "b", "s", "x"}
      THEN [m |-> [m EXCEPT !.saveFilename = @ + 1], cmd |-> NoCmd]
    ELSE [m |-> m, cmd |-> NoCmd]

\* handleErrorKeys
handleErrorKeys(m, key) ==
    IF key \in {"ctrl+c", "q"} THEN [m |-> m, cmd |-> Quit]
    ELSE IF key \in {"esc", "b"}
      THEN [m |-> [m EXCEPT !.state = "StateMenu"], cmd |-> NoCmd]
    ELSE [m |-> m, cmd |-> NoCmd]

\* handleKeyPress: the handler of the current state
handleKeyPress(m, key) ==
    CASE m.state = "StateMenu" -> handleMenuKeys(m, key)
      [] m.state = "StateConnectionTest" -> handleConnectionTestKeys(m, key)
      [] m.state = "StateBenchmarkRunning" -> handleBenchmarkKeys(m, key)
      [] m.state = "StateResults" -> handleResultsKeys(m, key)
      [] m.state = "StateSavePrompt" -> handleSavePromptKeys(m, key)
      [] m.state = "StateError" -> handleErrorKeys(m, key)
      [] OTHER -> [m |-> m, cmd |-> NoCmd]

\* Update, for the messages the commands return
Update(m, msg) ==
    CASE msg.type = "connectionTestMsg" ->
           [m EXCEPT !.connectionResults = msg.results, !.connectionDone = TRUE]
      [] msg.type = "benchmarkProgressMsg" ->
           [m EXCEPT !.benchmarkProgress =
               [q \in DOMAIN @ \cup {msg.provider} |->
                   IF q = msg.provider
                     THEN [Completed |-> msg.completed, Total |-> msg.total]
                     ELSE @[q]]]
      [] msg.type = "benchmarkCompleteMsg" ->
           [m EXCEPT !.benchmarkResults = msg.results, !.benchmarkDone = TRUE,
                     !.summaries = msg.results, !.state = "StateResults"]
      [] msg.type = "benchmarkErrorMsg" ->
           [m EXCEPT !.benchmarkError = msg.err, !.state = "StateError"]
      [] msg.type = "saveCompleteMsg" ->
           IF msg.err # Nil THEN [m EXCEPT !.saveError = msg.err]
           ELSE [m EXCEPT !.saveSuccess = TRUE]
      [] OTHER -> m

\* a key press reaches Update: the model changes and the returned command
\* is started (runBenchmark is tea.Batch(startBenchmark, listenForUpdates))
KeyPress(key) ==
    LET r == handleKeyPress(model, key) IN
    /\ ~quitted
    /\ r.m.saveFilename <= MaxFilename
    /\ r.cmd = "testConnections" => testing < MaxPending
    /\ r.cmd = "saveResults" => saving < MaxPending
    /\ r.cmd = "runBenchmark" => runs < MaxRuns
    /\ model' = r.m
    /\ quitted' = (r.cmd = Quit)
    /\ testing' = IF r.cmd = "testConnections" THEN testing + 1 ELSE testing
    /\ saving' = IF r.cmd = "saveResults" THEN saving + 1 ELSE saving
    /\ runs' = IF r.cmd = "runBenchmark" THEN runs + 1 ELSE runs
    /\ startPc' = IF r.cmd = "runBenchmark"
                    THEN [startPc EXCEPT ![runs + 1] = "makeProgress"]
                    ELSE startPc
    /\ listeners' = IF r.cmd = "runBenchmark" THEN listeners + 1 ELSE listeners
    /\ UNCHANGED <<benchVars, sumVars, connVars, streamVars, cfgVars, appConfig, runPc,
                   notified, deferred, chanVars, lastApplied>>

\* the testConnections command returns connectionTestMsg
CmdTestConnections ==
    /\ ~quitted
    /\ testing > 0
    /\ testing' = testing - 1
    /\ model' = Update(model, [type |-> "connectionTestMsg", results |-> "results"])
    /\ UNCHANGED <<benchVars, sumVars, connVars, streamVars, cfgVars, appConfig, quitted,
                   saving, runs, startPc, runPc, notified, deferred, listeners,
                   chanVars, lastApplied>>

\* the saveResults command returns saveCompleteMsg, with the error of
\* yaml.Marshal or os.WriteFile if there was one
CmdSaveResults ==
    /\ ~quitted
    /\ saving > 0
    /\ saving' = saving - 1
    /\ \E err \in {Nil, "failed to write file"} :
          model' = Update(model, [type |-> "saveCompleteMsg", err |-> err])
    /\ UNCHANGED <<benchVars, sumVars, connVars, streamVars, cfgVars, appConfig, quitted,
                   testing, runs, startPc, runPc, notified, deferred, listeners,
                   chanVars, lastApplied>>

\* startBenchmark: globalProgressChan = make(chan benchmarkProgressMsg, 100)
StartMakeProgress(k) ==
    /\ ~quitted
    /\ startPc[k] = "makeProgress"
    /\ globalProgressChan' = k
    /\ startPc' = [startPc EXCEPT ![k] = "makeResult"]
    /\ UNCHANGED <<benchVars, sumVars, connVars, streamVars, cfgVars, appConfig, model,
                   quitted, testing, saving, runs, runPc, notified, deferred,
                   listeners, chans, globalResultChan, lastApplied>>

\* startBenchmark: globalResultChan = make(chan tea.Msg, 1); go func() {...}();
\* return benchmarkStartMsg{}, which Update leaves without effect
StartMakeResult(k) ==
    /\ ~quitted
    /\ startPc[k] = "makeResult"
    /\ globalResultChan' = k
    /\ startPc' = [startPc EXCEPT ![k] = "done"]
    /\ runPc' = [runPc EXCEPT ![k] = "defer"]
    /\ model' = Update(model, [type |-> "benchmarkStartMsg"])
    /\ UNCHANGED <<benchVars, sumVars, connVars, streamVars, cfgVars, appConfig, quitted,
                   testing, saving, runs, notified, deferred, listeners, chans,
                   globalProgressChan, lastApplied>>

\* the goroutine's defer statements take the channels the globals hold now
GoDefer(k) ==
    /\ ~quitted
    /\ runPc[k] = "defer"
    /\ deferred' = [deferred EXCEPT ![k] = [progress |-> globalProgressChan,
                                            result |-> globalResultChan]]
    /\ notified' = [notified EXCEPT ![k] = [q \in appConfig.Providers |-> 0]]
    /\ runPc' = [runPc EXCEPT ![k] = "run"]
    /\ UNCHANGED <<benchVars, sumVars, connVars, streamVars, cfgVars, appConfig, model,
                   quitted, testing, saving, runs, startPc, listeners, chanVars,
                   lastApplied>>

\* a message of run k as the channel holds it
Tagged(k, type, fields) == [run |-> k, type |-> type, msg |-> fields]

\* RunBenchmark calls progressCallback(provider, len(results), Requests) once
\* more for provider q; the callback offers it to globalProgressChan
GoNotify(k, q) ==
    /\ ~quitted
    /\ runPc[k] = "run"
    /\ q \in appConfig.Providers
    /\ notified[k][q] < appConfig.Requests
    /\ globalProgressChan # 0
    /\ ~chans[globalProgressChan].progressClosed
    /\ notified' = [notified EXCEPT ![k][q] = @ + 1]
    /\ chans' = [chans EXCEPT ![globalProgressChan].progress =
                    ChanOffer(@, Tagged(k, "benchmarkProgressMsg",
                                  ProgressMsg(q, [completed |-> notified[k][q] + 1,
                                                  total |-> appConfig.Requests])))]
    /\ UNCHANGED <<benchVars, sumVars, connVars, streamVars, cfgVars, appConfig, model,
                   quitted, testing, saving, runs, startPc, runPc, deferred,
                   listeners, globalProgressChan, globalResultChan, lastApplied>>

\* RunBenchmark returned: benchmarkErrorMsg for an error, else
\* benchmarkCompleteMsg, sent to globalResultChan
GoSend(k) ==
    /\ ~quitted
    /\ runPc[k] = "run"
    /\ \A q \in appConfig.Providers : notified[k][q] = appConfig.Requests
    /\ globalResultChan # 0
    /\ ~chans[globalResultChan].resultClosed
    /\ Len(chans[globalResultChan].result) < ResultSlots
    /\ chans' = [chans EXCEPT ![globalResultChan].result =
                    Append(@, IF ReturnErr(<< >>) # Nil
                                THEN Tagged(k, "benchmarkErrorMsg",
                                            [err |-> ReturnErr(<< >>)])
                                ELSE Tagged(k, "benchmarkCompleteMsg",
                                            [results |-> k]))]
    /\ runPc' = [runPc EXCEPT ![k] = "closeResult"]
    /\ UNCHANGED <<benchVars, sumVars, connVars, streamVars, cfgVars, appConfig, model,
                   quitted, testing, saving, runs, startPc, notified, deferred,
                   listeners, globalProgressChan, globalResultChan, lastApplied>>

\* deferred close(globalResultChan), the last defer runs first
GoCloseResult(k) ==
    /\ ~quitted
    /\ runPc[k] = "closeResult"
    /\ chans' = [chans EXCEPT ![deferred[k].result].resultClosed = TRUE]
    /\ runPc' = [runPc EXCEPT ![k] = "closeProgress"]
    /\ UNCHANGED <<benchVars, sumVars, connVars, streamVars, cfgVars, appConfig, model,
                   quitted, testing, saving, runs, startPc, notified, deferred,
                   listeners, globalProgressChan, globalResultChan, lastApplied>>

\* deferred close(globalProgressChan)
GoCloseProgress(k) ==
    /\ ~quitted
    /\ runPc[k] = "closeProgress"
    /\ chans' = [chans EXCEPT ![deferred[k].progress].progressClosed = TRUE]
    /\ runPc' = [runPc EXCEPT ![k] = "done"]
    /\ UNCHANGED <<benchVars, sumVars, connVars, streamVars, cfgVars, appConfig, model,
                   quitted, testing, saving, runs, startPc, notified, deferred,
                   listeners, globalProgressChan, globalResultChan, lastApplied>>

\* a tick of listenForUpdates finds both globals set
ChannelsReady == globalProgressChan # 0 /\ globalResultChan # 0

\* faulty variant: the progress channel is served first, and a tick that
\* finds it closed and drained goes on ticking without looking further
C31_ProgressFirst(pair) ==
    pair.result # << >> /\ pair.progress = << >> /\ ~pair.progressClosed

\* case result, ok := <-globalResultChan is ready whenever a result is
\* buffered, whatever the progress channel holds
ResultReady(pair) == pair.result # << >>

\* the tick's select takes a buffered progress message, Update applies it
\* and starts listenForProgress
ListenProgress ==
    /\ ~quitted
    /\ listeners > 0
    /\ ChannelsReady
    /\ chans[globalProgressChan].progress # << >>
    /\ LET msg == Head(chans[globalProgressChan].progress) IN
          /\ model' = Update(model, [type |-> msg.type,
                                     provider |-> msg.msg.provider,
                                     completed |-> msg.msg.completed,
                                     total |-> msg.msg.total])
          /\ lastApplied' = [from |-> msg.run, during |-> runs]
    /\ chans' = [chans EXCEPT ![globalProgressChan].progress = Tail(@)]
    /\ UNCHANGED <<benchVars, sumVars, connVars, streamVars, cfgVars, appConfig, quitted,
                   cmdVars, globalProgressChan, globalResultChan>>

\* the tick's select takes the result message, Update applies it and
\* returns no command
ListenResult ==
    /\ ~quitted
    /\ listeners > 0
    /\ ChannelsReady
    /\ ResultReady([progress |-> chans[globalProgressChan].progress,
                    progressClosed |-> chans[globalProgressChan].progressClosed,
                    result |-> chans[globalResultChan].result])
    /\ LET msg == Head(chans[globalResultChan].result) IN
          /\ model' = Update(model, [type |-> msg.type] @@ msg.msg)
          /\ lastApplied' = [from |-> msg.run, during |-> runs]
    /\ chans' = [chans EXCEPT ![globalResultChan].result = Tail(@)]
    /\ listeners' = listeners - 1
    /\ UNCHANGED <<benchVars, sumVars, connVars, streamVars, cfgVars, appConfig, quitted,
                   testing, saving, runs, startPc, runPc, notified, deferred,
                   globalProgressChan, globalResultChan>>

AppInit ==
    /\ BenchIdle
    /\ SumIdle
    /\ ConnIdle
    /\ StreamIdle
    /\ CfgIdle
    /\ appConfig \in AppConfigs
    /\ model = newModel
    /\ quitted = FALSE
    /\ NothingStarted

GoStep(k) ==
    \/ StartMakeProgress(k)
    \/ StartMakeResult(k)
    \/ GoDefer(k)
    \/ \E q \in NameSet : GoNotify(k, q)
    \/ GoSend(k)
    \/ GoCloseResult(k)
    \/ GoCloseProgress(k)

AppNext ==
    \/ \E key \in Keys : KeyPress(key)
    \/ CmdTestConnections
    \/ CmdSaveResults
    \/ \E k \in RunIds : GoStep(k)
    \/ ListenProgress
    \/ ListenResult

AppSpec == AppInit /\ [][AppNext]_vars

\* the scheduler runs every goroutine and command that can step, and the
\* select of a tick chooses fairly among its ready cases
AppFairSpec ==
    /\ AppSpec
    /\ \A k \in RunIds : WF_vars(GoStep(k))
    /\ WF_vars(ListenProgress)
    /\ WF_vars(ListenResult)

\* ------------------------------------------- configuration and command line
\* setDefaults: benchmark.concurrency, benchmark.requests, benchmark.timeout
DefaultConcurrency == 1
DefaultRequests == 10
DefaultTimeout == "30s"

\* strings time.ParseDuration accepts, among those the model draws
ParsableDurations == {"30s", "1m"}

\* a provider of the file: complete, or with one required field left empty
FileProviders ==
    {[Name |-> "p1", BaseURL |-> "u", APIKey |-> "k", Model |-> "m1"],
     [Name |-> "", BaseURL |-> "u", APIKey |-> "k", Model |-> "m1"],
     [Name |-> "p1", BaseURL |-> "", APIKey |-> "k", Model |-> "m1"],
     [Name |-> "p1", BaseURL |-> "u", APIKey |-> "", Model |-> "m1"],
     [Name |-> "p1", BaseURL |-> "u", APIKey |-> "k", Model |-> ""]}

\* a key of the file is << >> when neither file nor environment set it
FileConfigs ==
    [Providers : UNION {[1..n -> FileProviders] : n \in 0..2},
     Concurrency : {<< >>} \cup {<<v>> : v \in -1..MaxConcurrency},
     Requests : {<< >>} \cup {<<v>> : v \in -1..MaxConcurrency},
     Timeout : {<< >>, <<"1m">>, <<"soon">>}]

\* values of the --requests and --concurrent flags (0 when not given)
Flags == [requests : -1..MaxRequests, concurrent : -1..MaxConcurrency]

\* viper: the value set, else the default
Get(key, default) == IF key = << >> THEN default ELSE key[1]

\* m.viper.Unmarshal(m.config)
Unmarshal(file) ==
    [set |-> TRUE,
     Benchmark |-> [Providers |-> file.Providers,
                    Concurrency |-> Get(file.Concurrency, DefaultConcurrency),
                    Requests |-> Get(file.Requests, DefaultRequests),
                    Timeout |-> Get(file.Timeout, DefaultTimeout)]]

\* the required-field checks of validate's loop, for one provider
ProviderErr(provider) ==
    IF provider.Name = "" THEN "name is required"
    ELSE IF provider.BaseURL = "" THEN "base_url is required"
    ELSE IF provider.APIKey = "" THEN "api_key is required"
    ELSE IF provider.Model = "" THEN "model is required"
    ELSE Nil

\* concurrency must be greater than 0
ConcurrencyInvalid(c) == c.Concurrency <= 0

\* requests must be greater than 0
RequestsInvalid(c) == c.Requests <= 0

\* (m *Manager) validate, on the Benchmark section
Validate(c) ==
    IF Len(c.Providers) = 0 THEN "at least one provider must be configured"
    ELSE IF \E k \in 1..Len(c.Providers) : ProviderErr(c.Providers[k]) # Nil
      THEN ProviderErr(c.Providers[CHOOSE k \in 1..Len(c.Providers) :
                          /\ ProviderErr(c.Providers[k]) # Nil
                          /\ \A j \in 1..(k - 1) : ProviderErr(c.Providers[j]) = Nil])
    ELSE IF ConcurrencyInvalid(c) THEN "concurrency must be greater than 0"
    ELSE IF RequestsInvalid(c) THEN "requests must be greater than 0"
    ELSE IF c.Timeout \notin ParsableDurations THEN "invalid timeout format"
    ELSE Nil

\* initConfig: configMgr.Load(cfgFile); an error ends the process (os.Exit(1))
InitConfig ==
    /\ cfgPc = "initConfig"
    /\ mgrConfig' = Unmarshal(fileConfig)
    /\ cfgPc' = IF Validate(Unmarshal(fileConfig).Benchmark) = Nil
                   THEN "runBenchmark" ELSE "exit"
    /\ UNCHANGED <<benchVars, sumVars, connVars, streamVars, appVars, fileConfig, flags,
                   svcConfig, cliOut>>

\* (m *Manager) GetBenchmarkConfig
GetBenchmarkConfig(m) ==
    IF m.set THEN m.Benchmark
    ELSE [Providers |-> << >>, Concurrency |-> 0, Requests |-> 0, Timeout |-> ""]

\* faulty variant: any flag value given on the command line is taken
C30_FlagNonZero(flag) == flag # 0

\* if requests > 0 { ... }, if concurrent > 0 { ... }
FlagGiven(flag) == flag > 0

\* runBenchmark: override config with command line flags if provided
OverrideConfig(c, f) ==
    [c EXCEPT !.Requests = IF FlagGiven(f.requests) THEN f.requests ELSE @,
              !.Concurrency = IF FlagGiven(f.concurrent) THEN f.concurrent ELSE @]

\* runBenchmark up to service.NewBenchmarkService(config)
RunBenchmarkCmd ==
    /\ cfgPc = "runBenchmark"
    /\ svcConfig' = [set |-> TRUE,
                     Benchmark |-> OverrideConfig(GetBenchmarkConfig(mgrConfig), flags)]
    /\ cfgPc' = "service"
    /\ UNCHANGED <<benchVars, sumVars, connVars, streamVars, appVars, fileConfig, flags,
                   mgrConfig, cliOut>>

CfgInit ==
    /\ BenchIdle
    /\ SumIdle
    /\ ConnIdle
    /\ StreamIdle
    /\ AppIdle
    /\ cliOut = NoCliOut
    /\ fileConfig \in FileConfigs
    /\ flags \in Flags
    /\ cfgPc = "initConfig"
    /\ mgrConfig = NoConfig
    /\ svcConfig = NoConfig

\* records runProviderBenchmark returns for each provider: one per
\* iteration of its loop over the service's Requests
RecordsPerProvider(c) == c.Requests

\* runCLIBenchmark: prints the counts, runs the benchmark with the service
\* built from the overridden config and, with --save, writes the metadata
RunCLIBenchmark ==
    /\ cfgPc = "service"
    /\ \E save \in BOOLEAN :
          cliOut' = [ran |-> TRUE,
                     printed |-> [Requests |-> GetBenchmarkConfig(mgrConfig).Requests,
                                  Concurrency |-> GetBenchmarkConfig(mgrConfig).Concurrency],
                     service |-> [Requests |-> svcConfig.Benchmark.Requests,
                                  Concurrency |-> svcConfig.Benchmark.Concurrency],
                     records |-> RecordsPerProvider(svcConfig.Benchmark),
                     saved |-> save,
                     metadata |->
                         IF save
                           THEN [Requests |-> GetBenchmarkConfig(mgrConfig).Requests,
                                 Concurrency |-> GetBenchmarkConfig(mgrConfig).Concurrency]
                           ELSE [Requests |-> 0, Concurrency |-> 0]]
    /\ cfgPc' = "done"
    /\ UNCHANGED <<benchVars, sumVars, connVars, streamVars, appVars, fileConfig, flags,
                   mgrConfig, svcConfig>>

CfgNext ==
    \/ InitConfig
    \/ RunBenchmarkCmd
    \/ RunCLIBenchmark

CfgSpec == CfgInit /\ [][CfgNext]_vars

\* ---------------------------------------------------------------- properties
Configured == 1..NumProviders
Returned == mainPc = "returned"
WellFormed(rec) ==
    \/ rec.Success /\ rec.Error = ""
    \/ ~rec.Success /\ rec.Error # ""
Recorded(r) == Cardinality(TasksIn(r, {"notify", "exit", "done"}))

\* C1: when RunBenchmark returns without cancellation and Requests = R >= 1,
\* every endpoint's stored result sequence has length exactly R.
C1_ResultLength ==
    (Returned /\ ~ctxDone /\ config.Requests >= 1) =>
        \A n \in Names :
            /\ n \in DOMAIN ret.results
            /\ Len(ret.results[n]) = config.Requests

C1_Witness ==
    /\ Returned /\ ~ctxDone
    /\ config.Requests >= 2
    /\ NumProviders >= 1
    /\ Len(ret.results[NameOf(1)]) = config.Requests

\* C2: in every reachable state the number of client calls in flight for one
\* endpoint is at most the configured concurrency limit.
C2_InFlightBound ==
    config.Concurrency >= 0 =>
        \A r \in Runners : InFlight(r) <= config.Concurrency

\* the gate is saturated and holds a request back
C2_Witness ==
    \E r \in Runners :
        /\ config.Concurrency >= 1
        /\ InFlight(r) = config.Concurrency
        /\ TasksIn(r, {"acquire"}) # {}

\* C3: at the moment RunBenchmark returns, the result map has one key per
\* configured endpoint name, every runner has finished and no request is
\* still waiting, in flight or to be appended.
C3_ReturnsAfterAll ==
    Returned =>
        /\ DOMAIN ret.results = Names
        /\ \A r \in Configured :
              /\ runnerPc[r] = "done"
              /\ ret.results[NameOf(r)] = runnerResults[r]
              /\ \A i \in TaskIds :
                    i < config.Requests => taskPc[r][i] = "done"

C3_Witness ==
    /\ Returned
    /\ NumProviders = 2
    /\ config.Requests >= 1
    /\ \A r \in Configured : Len(ret.results[NameOf(r)]) >= 1

\* C4: a failed client call is recorded with success=false and a non-empty
\* error text and never aborts the batch: every call that came back is
\* recorded, and for every pattern of failures all R calls are recorded.
C4_FailuresRecorded ==
    /\ \A r \in Runners :
          /\ Len(runnerResults[r]) = Recorded(r)
          /\ \A k \in 1..Len(runnerResults[r]) : WellFormed(runnerResults[r][k])
          /\ \A i \in TasksIn(r, {"lock"}) : WellFormed(taskResult[r][i])
    /\ (Returned /\ config.Requests >= 0) =>
          \A r \in Configured : Len(ret.results[NameOf(r)]) = config.Requests

\* a failure is followed by a success in the same batch
C4_Witness ==
    /\ Returned /\ ~ctxDone
    /\ \E r \in Configured :
          \E j, k \in 1..Len(ret.results[NameOf(r)]) :
              /\ j < k
              /\ ~ret.results[NameOf(r)][j].Success
              /\ ret.results[NameOf(r)][j].Error = ErrDeadline
              /\ ret.results[NameOf(r)][k].Success

\* C5: per endpoint the completed counts handed to the callback never
\* decrease, and when the run has returned the last one equals Requests.
C5_ProgressMonotone ==
    \A n \in Names :
        /\ \A k \in 1..(Len(progress[n]) - 1) :
              progress[n][k].completed <= progress[n][k + 1].completed
        /\ (Returned /\ hasCallback /\ config.Requests >= 1) =>
              /\ Len(progress[n]) >= 1
              /\ progress[n][Len(progress[n])].completed = config.Requests

C5_Witness ==
    /\ Returned /\ hasCallback
    /\ NumProviders >= 1
    /\ Len(progress[NameOf(1)]) >= 2

\* C6: the callback runs exactly once per appended record, inside the
\* critical section of the append, with completed = len(results) right after
\* the append and total = Requests: the invocations carry 1, 2, ..., R.
C6_ProgressExact ==
    hasCallback =>
        \A r \in Configured :
            /\ TasksIn(r, {"notify"}) \subseteq mu[r]
            /\ Len(progress[NameOf(r)]) =
                  Len(runnerResults[r]) - Cardinality(TasksIn(r, {"notify"}))
            /\ \A k \in 1..Len(progress[NameOf(r)]) :
                  progress[NameOf(r)][k] =
                      [completed |-> k, total |-> config.Requests]
            /\ Returned => Len(progress[NameOf(r)]) = config.Requests

C6_Witness ==
    /\ Returned /\ hasCallback
    /\ NumProviders >= 1
    /\ config.Requests >= 2
    /\ Len(progress[NameOf(1)]) = config.Requests

\* C7: with at least one request and a concurrency limit of at least 1,
\* under fair scheduling RunBenchmark eventually returns.
ValidCounts == config.Requests >= 1 /\ config.Concurrency >= 1

C7_AlwaysCompletes ==
    (mainPc = "loop" /\ ValidCounts) ~> Returned

\* a run whose requests had to queue at the gate has returned
C7_Witness ==
    /\ Returned
    /\ NumProviders >= 1
    /\ config.Concurrency >= 1
    /\ config.Requests > config.Concurrency

\* C8 (as claimed): once the context is cancelled, a request that has not
\* been dispatched yet is never sent to the endpoint client.
C8_NoDispatchAfterCancel ==
    [][ctxDone =>
          \A r \in Runners : \A i \in TaskIds :
              taskPc[r][i] = "acquire" => taskPc'[r][i] # "inflight"]_vars

\* C9 (as claimed): with Requests <= 0 or Concurrency <= 0 and at least one
\* endpoint, RunBenchmark never hands back a normal result (a map with a nil
\* error).
InvalidCounts == config.Requests <= 0 \/ config.Concurrency <= 0

C9_RejectsInvalidCounts ==
    (InvalidCounts /\ NumProviders >= 1) => ~(Returned /\ ret.err = "nil")

\* C10: with zero configured endpoints RunBenchmark dispatches nothing,
\* invokes no callback and returns an empty map with a nil error.
C10_NoProviders ==
    NumProviders = 0 =>
        /\ \A r \in Runners :
              /\ runnerPc[r] = "idle"
              /\ \A i \in TaskIds : taskPc[r][i] = "none"
        /\ \A n \in NameSet : progress[n] = << >>
        /\ Returned => (DOMAIN ret.results = {} /\ ret.err = "nil")

C10_Witness ==
    /\ Returned
    /\ NumProviders = 0
    /\ hasCallback

\* ---------------------------------------------------------------- properties of GenerateSummary
Summarized == summaries # NoSummaries
Idx(rs) == 1..Len(rs)
SuccessIdx(rs) == {k \in Idx(rs) : rs[k].Success}
TTFTIdx(rs) ==
    {k \in Idx(rs) : rs[k].Success /\ rs[k].IsStreaming /\ rs[k].TimeToFirstToken > 0}
ThroughputIdx(rs) ==
    {k \in Idx(rs) : rs[k].Success /\ rs[k].IsStreaming /\ rs[k].TokenThroughput > 0}

RECURSIVE SumOver(_, _)
SumOver(f, S) ==
    IF S = {} THEN 0
    ELSE LET k == CHOOSE x \in S : TRUE IN f[k] + SumOver(f, S \ {k})
MinOver(f, S) == CHOOSE v \in {f[k] : k \in S} : \A k \in S : v <= f[k]
MaxOver(f, S) == CHOOSE v \in {f[k] : k \in S} : \A k \in S : v >= f[k]
ResponseTimeOf(rs) == [k \in Idx(rs) |-> rs[k].ResponseTime]
TTFTOf(rs) == [k \in Idx(rs) |-> rs[k].TimeToFirstToken]
ThroughputOf(rs) == [k \in Idx(rs) |-> rs[k].TokenThroughput]
TokensOf(rs) ==
    [k \in Idx(rs) |->
        IF rs[k].IsStreaming THEN rs[k].StreamingTokens ELSE rs[k].TokensUsed]

\* C11: TotalRequests is the number of records, SuccessfulReqs the number of
\* records with Success, and SuccessfulReqs + FailedRequests = TotalRequests.
C11_Counts ==
    Summarized =>
        \A n \in DOMAIN resultSet :
            /\ summaries[n].TotalRequests = Len(resultSet[n])
            /\ summaries[n].SuccessfulReqs = Cardinality(SuccessIdx(resultSet[n]))
            /\ summaries[n].SuccessfulReqs + summaries[n].FailedRequests =
                  summaries[n].TotalRequests

\* successes and failures mixed in one list
C11_Witness ==
    /\ Summarized
    /\ \E n \in DOMAIN resultSet :
          /\ summaries[n].SuccessfulReqs >= 1
          /\ summaries[n].FailedRequests >= 2

\* C12: ErrorRate is 100 * FailedRequests / TotalRequests for an endpoint with
\* at least one record and 0 for an endpoint without records.
C12_ErrorRate ==
    Summarized =>
        \A n \in DOMAIN resultSet :
            LET rs == resultSet[n]
                failed == Len(rs) - Cardinality(SuccessIdx(rs))
            IN /\ summaries[n].ErrorRate.den > 0
               /\ Len(rs) > 0 =>
                     RatEq(summaries[n].ErrorRate, Rat(100 * failed, Len(rs)))
               /\ Len(rs) = 0 => RatEq(summaries[n].ErrorRate, Rat(0, 1))

\* one endpoint fails one call in two, the other has no record at all
C12_Witness ==
    /\ Summarized
    /\ \E n \in DOMAIN resultSet :
          /\ Len(resultSet[n]) = 2
          /\ RatEq(summaries[n].ErrorRate, Rat(50, 1))
    /\ \E n \in DOMAIN resultSet :
          Len(resultSet[n]) = 0 /\ summaries[n].ErrorRate.num = 0

\* C13: Min/Max/AvgResponseTime are the minimum, the maximum and the
\* truncated mean of ResponseTime over all records, failed ones included.
C13_ResponseTime ==
    Summarized =>
        \A n \in DOMAIN resultSet :
            LET rs == resultSet[n]
                f == ResponseTimeOf(rs)
            IN Len(rs) > 0 =>
                  /\ summaries[n].MinResponseTime = MinOver(f, Idx(rs))
                  /\ summaries[n].MaxResponseTime = MaxOver(f, Idx(rs))
                  /\ summaries[n].AvgResponseTime =
                        SumOver(f, Idx(rs)) \div Len(rs)
                  /\ summaries[n].MinResponseTime > 0

\* a failed record that is not the first one holds the maximum, and the
\* mean is truncated
C13_Witness ==
    /\ Summarized
    /\ \E n \in DOMAIN resultSet :
          LET rs == resultSet[n]
          IN /\ Len(rs) = 2
             /\ rs[1].Success /\ rs[1].ResponseTime = 1
             /\ ~rs[2].Success /\ rs[2].ResponseTime = 2
             /\ summaries[n].MaxResponseTime = 2
             /\ summaries[n].AvgResponseTime = 1

\* C14: TotalTokens is the sum over the successful records of StreamingTokens
\* (streaming record) or TokensUsed (otherwise).
C14_TotalTokens ==
    Summarized =>
        \A n \in DOMAIN resultSet :
            summaries[n].TotalTokens =
                SumOver(TokensOf(resultSet[n]), SuccessIdx(resultSet[n]))

\* streaming records whose two token fields differ, next to a failed record
C14_Witness ==
    /\ Summarized
    /\ \E n \in DOMAIN resultSet :
          LET rs == resultSet[n]
          IN /\ \E k \in Idx(rs) : ~rs[k].Success
             /\ \E k \in SuccessIdx(rs) :
                   /\ rs[k].IsStreaming
                   /\ rs[k].StreamingTokens > 0
                   /\ rs[k].TokensUsed # rs[k].StreamingTokens
             /\ summaries[n].TotalTokens > 0

\* C15: Min/Avg/MaxTimeToFirstToken are the minimum, the truncated mean and
\* the maximum of TimeToFirstToken over the successful streaming records
\* whose TimeToFirstToken is positive, in every record order.
C15_TTFT ==
    Summarized =>
        \A n \in DOMAIN resultSet :
            LET rs == resultSet[n]
                S == TTFTIdx(rs)
                f == TTFTOf(rs)
            IN S # {} =>
                  /\ summaries[n].MinTimeToFirstToken = MinOver(f, S)
                  /\ summaries[n].MaxTimeToFirstToken = MaxOver(f, S)
                  /\ summaries[n].AvgTimeToFirstToken =
                        SumOver(f, S) \div Cardinality(S)

\* the first record has no first token, the later ones differ
C15_Witness ==
    /\ Summarized
    /\ \E n \in DOMAIN resultSet :
          LET rs == resultSet[n]
          IN /\ Len(rs) = 3
             /\ rs[1].Success /\ rs[1].TimeToFirstToken = 0
             /\ Cardinality(TTFTIdx(rs)) = 2
             /\ summaries[n].MinTimeToFirstToken = 1
             /\ summaries[n].MaxTimeToFirstToken = 2

\* C16 (as claimed): Min/Avg/MaxTokenThroughput are the minimum, the mean and
\* the maximum of TokenThroughput over the successful streaming records whose
\* TokenThroughput is positive.
C16_Throughput ==
    Summarized =>
        \A n \in DOMAIN resultSet :
            LET rs == resultSet[n]
                S == ThroughputIdx(rs)
                f == ThroughputOf(rs)
            IN S # {} =>
                  /\ summaries[n].MinTokenThroughput = MinOver(f, S)
                  /\ summaries[n].MaxTokenThroughput = MaxOver(f, S)
                  /\ RatEq(summaries[n].AvgTokenThroughput,
                           Rat(SumOver(f, S), Cardinality(S)))

\* C17 (as claimed): a summary without a successful streaming record with a
\* positive TimeToFirstToken (TokenThroughput) is not flagged IsStreaming with
\* zero-valued TimeToFirstToken (TokenThroughput) statistics.
C17_NoZeroStats ==
    Summarized =>
        \A n \in DOMAIN resultSet :
            LET rs == resultSet[n]
                sm == summaries[n]
            IN /\ TTFTIdx(rs) = {} =>
                     ~(/\ sm.IsStreaming
                       /\ sm.MinTimeToFirstToken = 0
                       /\ sm.AvgTimeToFirstToken = 0
                       /\ sm.MaxTimeToFirstToken = 0)
               /\ ThroughputIdx(rs) = {} =>
                     ~(/\ sm.IsStreaming
                       /\ sm.MinTokenThroughput = 0
                       /\ sm.AvgTokenThroughput.num = 0
                       /\ sm.MaxTokenThroughput = 0)

\* ---------------------------------------------------------------- properties of the result map
Inserted(r) == r \in Configured /\ runnerPc[r] \in {"unlock", "done"}
InSection(r) == TasksIn(r, {"notify"})

\* C19: with unique endpoint names every record under key n of the result map
\* has Provider = n, so no record sits under two keys; the list under a key is
\* the list its endpoint's runner collected, and once stored it never changes.
C19_RecordsStayWithEndpoint ==
    /\ [](/\ DOMAIN results = {NameOf(r) : r \in {x \in Runners : Inserted(x)}}
          /\ \A r \in Runners :
                Inserted(r) => results[NameOf(r)] = runnerResults[r]
          /\ \A n \in DOMAIN results :
                \A k \in 1..Len(results[n]) : results[n][k].Provider = n
          /\ \A n \in DOMAIN ret.results :
                \A k \in 1..Len(ret.results[n]) : ret.results[n][k].Provider = n)
    /\ [][\A n \in DOMAIN results :
             n \in DOMAIN results' /\ results'[n] = results[n]]_vars

\* two endpoints, both with records in the returned map
C19_Witness ==
    /\ Returned
    /\ NumProviders = 2
    /\ \A n \in Names : n \in DOMAIN ret.results /\ Len(ret.results[n]) >= 1

\* C20: at most one request task of an endpoint is between mu.Lock() and
\* mu.Unlock() at a time, that task is the holder of the endpoint's mutex,
\* every task that passed the section has its record in the list, and
\* every callback ran inside the section.
C20_AppendSection ==
    \A r \in Runners :
        /\ Cardinality(InSection(r)) <= 1
        /\ mu[r] = InSection(r)
        /\ Len(runnerResults[r]) = Recorded(r)
        /\ (r \in Configured /\ hasCallback) =>
              Len(progress[NameOf(r)]) = Cardinality(TasksIn(r, {"exit", "done"}))

\* one task is inside the section while another one waits for the mutex
C20_Witness ==
    \E r \in Runners :
        /\ Cardinality(InSection(r)) = 1
        /\ TasksIn(r, {"lock"}) # {}
        /\ Len(runnerResults[r]) >= 2

\* ---------------------------------------------------------------- properties of the two locks and the gates
Unfinished(r) == TasksIn(r, {"acquire", "inflight", "lock", "notify", "exit"})
HoldsToken(r) == TasksIn(r, {"inflight", "lock", "notify", "exit"})
Min(a, b) == IF a < b THEN a ELSE b

\* C21: the mutex of RunBenchmark is held by at most one runner, only by a
\* runner that has finished its endpoint (no task of it is unfinished, so no
\* client call of it is in flight), and the result map changes only in a
\* step that leaves the mutex held.
C21_MapMutex ==
    /\ [](/\ Cardinality(mainMu) <= 1
          /\ \A r \in Runners :
                r \in mainMu =>
                    /\ runnerPc[r] = "unlock"
                    /\ Unfinished(r) = {}
                    /\ InFlight(r) = 0)
    /\ [][results' # results => (mainMu = {} /\ mainMu' # {})]_vars

\* a runner holds the mutex while the other endpoint still has a call in flight
C21_Witness ==
    \E r, q \in Runners :
        /\ r \in mainMu
        /\ Len(runnerResults[r]) >= 1
        /\ q # r
        /\ InFlight(q) >= 1

\* C22: the gate is per endpoint: the tokens of an endpoint's gate are held by
\* that endpoint's tasks alone, and whatever the other endpoints do, a task can
\* enter when its own gate has a free slot, a call in flight can return, and a
\* finished call can append when its own endpoint's mutex is free.
C22_PerEndpointGate ==
    \A r \in Runners :
        /\ semaphore[r] = Cardinality(HoldsToken(r))
        /\ \A i \in TaskIds :
              /\ (Alive /\ taskPc[r][i] = "acquire"
                    /\ semaphore[r] < config.Concurrency) => ENABLED TaskAcquire(r, i)
              /\ (Alive /\ taskPc[r][i] = "inflight") => ENABLED TaskCallReturn(r, i)
              /\ (Alive /\ taskPc[r][i] = "lock" /\ mu[r] = {}) => ENABLED TaskAppend(r, i)

\* both endpoints have their gates saturated at once: E * concurrencyLimit
\* calls are in flight
C22_Witness ==
    /\ NumProviders = 2
    /\ config.Concurrency >= 1
    /\ \A r \in Configured : InFlight(r) = config.Concurrency

\* C23: with valid counts the calls in flight for an endpoint never exceed
\* min(requestCount, concurrencyLimit).
C23_InFlightMin ==
    ValidCounts =>
        \A r \in Runners : InFlight(r) <= Min(config.Requests, config.Concurrency)

\* concurrencyLimit > requestCount and all requestCount calls are in flight
C23_Witness ==
    /\ config.Requests >= 1
    /\ config.Concurrency > config.Requests
    /\ \E r \in Runners : InFlight(r) = config.Requests

\* ---------------------------------------------------------------- properties of the dispatched request
Dispatched(r) == TasksIn(r, {"inflight"} \cup AfterCall)

\* C24: the request a task hands to the client, and what either client
\* revision sends for it, names the endpoint's own model and has the
\* caller's messages, max-tokens and streaming flag; the caller's request
\* never changes.
C24_ModelOverride ==
    /\ [](\A r \in Configured : \A i \in Dispatched(r) :
             /\ taskRequest[r][i].Model = ModelOf(NameOf(r))
             /\ taskRequest[r][i].Messages = request.Messages
             /\ taskRequest[r][i].MaxTokens = request.MaxTokens
             /\ taskRequest[r][i].Stream = request.Stream
             /\ \A rev \in ClientRevisions :
                   ChatRequest(rev, ProviderOf(r), taskRequest[r][i]) =
                       [Messages |-> request.Messages,
                        Model |-> ModelOf(NameOf(r)),
                        MaxTokens |-> request.MaxTokens])
    /\ [][request' = request]_vars

\* two endpoints have a call in flight, each under its own model, and the
\* caller asked for the second endpoint's model
C24_Witness ==
    /\ NumProviders = 2
    /\ request.Model = ModelOf(NameOf(2))
    /\ \E i, j \in TaskIds :
          /\ taskPc[1][i] = "inflight" /\ taskRequest[1][i].Model = ModelOf(NameOf(1))
          /\ taskPc[2][j] = "inflight" /\ taskRequest[2][j].Model = ModelOf(NameOf(2))
    /\ ModelOf(NameOf(1)) # request.Model

\* ---------------------------------------------------------------- properties of TestConnections
Probed(r) == probePc[r] \in {"inflight", "lock", "unlock", "done"}
FirstModel(provider) ==
    IF connInput.rev = "counted" THEN Head(provider.Models) ELSE provider.Model

\* C25: TestConnections returns after every probe is done, with one entry per
\* endpoint name, nil exactly for the endpoints whose own probe request
\* succeeded; a probe in flight can always return, whatever the other probes
\* do; a request that is sent names the endpoint's first model.
C25_TestConnections ==
    /\ connPc = "returned" =>
          /\ DOMAIN connRet = ConnNames
          /\ \A r \in 1..Len(connInput.providers) :
                /\ probePc[r] = "done"
                /\ (connRet[ConnProvider(r).Name] = Nil) <=> probeResult[r].Success
    /\ \A r \in Runners :
          /\ probePc[r] = "inflight" =>
                /\ ENABLED ProbeCallReturn(r)
                /\ ChatRequest(connInput.rev, ConnProvider(r), probeRequest[r]).Model =
                      FirstModel(ConnProvider(r))
          /\ (probePc[r] \in {"lock", "unlock", "done"} /\ probeResult[r] # NoResult) =>
                probeResult[r].Provider = ConnProvider(r).Name

\* returned: one endpoint listing two models was probed and failed, the
\* other one succeeded
C25_Witness ==
    /\ connPc = "returned"
    /\ Len(connInput.providers) = 2
    /\ \E r, q \in 1..2 :
          /\ Len(ConnProvider(r).Models) = 2
          /\ probeRequest[r].Model = "m2"
          /\ connRet[ConnProvider(r).Name] # Nil
          /\ connRet[ConnProvider(q).Name] = Nil

\* ---------------------------------------------------------------- properties of one streaming call
Streamed == streamResult # NoStreamResult
ContentIdx == {k \in 1..Len(streamInput.chunks) : streamInput.chunks[k].content # << >>}
FirstFragmentAt ==
    streamInput.chunks[CHOOSE k \in ContentIdx : \A j \in ContentIdx : k <= j].at
RECURSIVE Assemble(_, _)
Assemble(chunks, k) ==
    IF k > Len(chunks) THEN << >> ELSE chunks[k].content \o Assemble(chunks, k + 1)
\* the same text delivered as a single fragment
InOneChunk(in) ==
    [in EXCEPT !.chunks = <<[at |-> FirstFragmentAt, content |-> Assemble(in.chunks, 1)]>>]

\* C26 (as claimed): for a successful streaming call with content,
\* TimeToFirstToken is the time from the start to the first non-empty
\* fragment, StreamingDuration the time from that fragment to the end of the
\* stream, and TokenThroughput, where the duration is at least 1 ms and tokens
\* were counted, StreamingTokens divided by that duration in seconds.
C26_StreamTimes ==
    (Streamed /\ streamResult.Success /\ ContentIdx # {}) =>
        LET d == streamInput.endAt - FirstFragmentAt
        IN /\ streamResult.TimeToFirstToken = FirstFragmentAt
           /\ streamResult.StreamingDuration = d
           /\ (Milliseconds(d) >= 1 /\ streamResult.StreamingTokens > 0) =>
                 RatEq(streamResult.TokenThroughput,
                       Rat(streamResult.StreamingTokens * TicksPerSecond, d))

\* C27 (as claimed): a successful streaming result has a TokenThroughput only
\* if its StreamingDuration is at least 1 ms and its token count is positive.
C27_ThroughputGuard ==
    (Streamed /\ streamResult.Success /\ streamResult.TokenThroughput.num # 0) =>
        /\ Milliseconds(streamResult.StreamingDuration) >= 1
        /\ streamResult.StreamingTokens > 0

\* C28 (as claimed): StreamingTokens is the token count of the assembled
\* text where a counter exists, and the same text delivered as one fragment
\* gives the same StreamingTokens.
C28_CountedTokens ==
    (Streamed /\ streamResult.Success /\ ContentIdx # {}) =>
        /\ streamInput.hasCounter =>
              streamResult.StreamingTokens =
                  CountTextTokens(Assemble(streamInput.chunks, 1))
        /\ StreamResult(InOneChunk(streamInput)).StreamingTokens =
              streamResult.StreamingTokens

\* C29: a dropped or delayed progress notification never affects the results.
\* A task that reached its notification can always take it (the TUI's
\* callback never waits for a free slot), the progress channel never holds
\* more than its slots, a step of the listener touches no task and no result,
\* a notification that finds the channel full is skipped while its task goes
\* on, and the run returns Requests records for every endpoint however many
\* notifications were delivered, still buffered or dropped.
C29_ProgressNeverBlocks ==
    /\ [](/\ Len(progressChan) <= ProgressSlots
          /\ \A r \in Runners : \A i \in TaskIds :
                (Alive /\ taskPc[r][i] = "notify") => ENABLED TaskNotify(r, i)
          /\ Returned =>
                \A r \in Configured :
                    /\ Len(runnerResults[r]) = config.Requests
                    /\ Len(ret.results[NameOf(r)]) = config.Requests)
    /\ [][/\ delivered' # delivered =>
                UNCHANGED <<mainVars, runnerVars, taskVars, progress>>
          /\ (progress' # progress /\ progressChan' = progressChan) =>
                /\ Len(progressChan) = ProgressSlots
                /\ UNCHANGED <<runnerResults, results, ret>>
                /\ \E r \in Runners : \E i \in TaskIds :
                      taskPc[r][i] = "notify" /\ taskPc'[r][i] = "exit"
          /\ progressChan' # progressChan =>
                UNCHANGED <<runnerResults, results, ret>>]_vars

\* a TUI run of one endpoint returned all three records although at least
\* one of its three notifications was skipped on a full channel
C29_Witness ==
    /\ tui
    /\ Returned
    /\ NumProviders = 1
    /\ config.Requests = 3
    /\ Len(ret.results[NameOf(1)]) = 3
    /\ Len(progress[NameOf(1)]) = 3
    /\ delivered + Len(progressChan) < 3
    /\ delivered >= 1

\* C30: the request count and the concurrency limit that reach the benchmark
\* service are at least 1. Loading ends the command when the configuration
\* has no provider, a concurrency or a request count of 0 or less, or a
\* timeout that does not parse, and a flag replaces the configured value
\* exactly when it is greater than 0.
C30_CountsAtLeastOne ==
    /\ cfgPc \in {"runBenchmark", "exit", "service"} =>
          LET b == mgrConfig.Benchmark IN
          (\/ Len(b.Providers) = 0
           \/ b.Concurrency <= 0
           \/ b.Requests <= 0
           \/ b.Timeout \notin ParsableDurations) => cfgPc = "exit"
    /\ cfgPc = "exit" => svcConfig = NoConfig
    /\ cfgPc = "service" =>
          LET b == mgrConfig.Benchmark
              c == svcConfig.Benchmark IN
          /\ c.Requests >= 1
          /\ c.Concurrency >= 1
          /\ Len(c.Providers) >= 1
          /\ c.Requests = IF flags.requests > 0 THEN flags.requests ELSE b.Requests
          /\ c.Concurrency = IF flags.concurrent > 0 THEN flags.concurrent
                             ELSE b.Concurrency

\* the service was built with --concurrent replacing the configured limit
\* and a negative --requests ignored in favour of the default count
C30_Witness ==
    /\ cfgPc = "service"
    /\ flags.requests < 0
    /\ flags.concurrent > 0
    /\ svcConfig.Benchmark.Concurrency = flags.concurrent
    /\ svcConfig.Benchmark.Concurrency # mgrConfig.Benchmark.Concurrency
    /\ fileConfig.Requests = << >>
    /\ svcConfig.Benchmark.Requests = DefaultRequests

Running == model.state = "StateBenchmarkRunning"
\* run k has sent its result; run k is still executing
Finished(k) == runPc[k] \in {"closeResult", "closeProgress", "done"}
InProgress(k) == startPc[k] \in {"makeProgress", "makeResult"} \/ runPc[k] \in {"defer", "run"}

\* C31: once the benchmark started from the menu has finished, the model
\* eventually leaves StateBenchmarkRunning for StateResults with the results
\* and the summaries of that run, under fair choice among the ready cases of
\* the listener's select (unless the user quits the program first).
C31_CompletionReceived ==
    \A k \in RunIds :
        (Running /\ runs = k /\ Finished(k))
            ~> (\/ quitted
                \/ /\ model.state = "StateResults"
                   /\ model.benchmarkResults = k
                   /\ model.summaries = k)

\* the results of the first run are shown although a progress message is
\* still buffered in its channel, which is already closed
C31_Witness ==
    /\ model.state = "StateResults"
    /\ model.benchmarkDone
    /\ model.benchmarkResults = 1
    /\ model.summaries = 1
    /\ chans[1].progress # << >>
    /\ chans[1].progressClosed

\* C32: StateBenchmarkRunning is left only when a benchmark-complete message
\* is applied (to StateResults) or a benchmark-error message (to StateError);
\* a key press there quits or changes nothing, and so no benchmark is ever
\* started while another one is in progress.
C32_RunningIsLeftByResult ==
    /\ [](\A k \in RunIds :
             InProgress(k) => /\ Running
                              /\ runs = k
                              /\ \A j \in RunIds \ {k} : ~InProgress(j))
    /\ [][Running =>
            \/ model' = model
            \/ model'.state = "StateBenchmarkRunning" /\ listeners' = listeners
            \/ /\ model'.state = "StateResults"
               /\ listeners' = listeners - 1
               /\ chans[globalResultChan].result # << >>
               /\ Head(chans[globalResultChan].result).type = "benchmarkCompleteMsg"
            \/ /\ model'.state = "StateError"
               /\ chans[globalResultChan].result # << >>
               /\ Head(chans[globalResultChan].result).type = "benchmarkErrorMsg"]_vars

\* the second benchmark is running: it was started from the menu after the
\* first one had sent its result and the benchmark screen had been left
C32_Witness ==
    /\ Running
    /\ runs = 2
    /\ runPc[2] = "run"
    /\ Finished(1)
    /\ ~quitted

OrdersOf(n) == {p \in [1..n -> 1..n] : \A a, b \in 1..n : p[a] = p[b] => a = b}
Reordered(rs, p) == [k \in 1..Len(rs) |-> rs[p[k]]]
SameStatistics(a, b) ==
    /\ a.TotalRequests = b.TotalRequests
    /\ a.SuccessfulReqs = b.SuccessfulReqs
    /\ a.FailedRequests = b.FailedRequests
    /\ a.TotalTokens = b.TotalTokens
    /\ a.MinResponseTime = b.MinResponseTime
    /\ a.MaxResponseTime = b.MaxResponseTime
    /\ a.AvgResponseTime = b.AvgResponseTime
    /\ RatEq(a.ErrorRate, b.ErrorRate)
    /\ a.IsStreaming = b.IsStreaming
    /\ a.MinTimeToFirstToken = b.MinTimeToFirstToken
    /\ a.MaxTimeToFirstToken = b.MaxTimeToFirstToken
    /\ a.AvgTimeToFirstToken = b.AvgTimeToFirstToken
    /\ a.MinTokenThroughput = b.MinTokenThroughput
    /\ a.MaxTokenThroughput = b.MaxTokenThroughput
    /\ RatEq(a.AvgTokenThroughput, b.AvgTokenThroughput)

\* C34: the summary of an endpoint does not depend on the order of its
\* records: every permutation of the list gives the same counts, token
\* total and response-time, TTFT and throughput statistics.
C34_OrderIndependent ==
    Summarized =>
        \A n \in DOMAIN resultSet :
            \A p \in OrdersOf(Len(resultSet[n])) :
                SameStatistics(summaries[n],
                               Summarize(n, Reordered(resultSet[n], p)))

\* C35: in a summary with at least one contributing record min <= avg <= max
\* holds for the response time, the time to first token and the throughput.
C35_MinAvgMax ==
    Summarized =>
        \A n \in DOMAIN resultSet :
            LET rs == resultSet[n]
                sm == summaries[n]
            IN /\ Len(rs) > 0 =>
                     /\ sm.MinResponseTime <= sm.AvgResponseTime
                     /\ sm.AvgResponseTime <= sm.MaxResponseTime
               /\ TTFTIdx(rs) # {} =>
                     /\ sm.MinTimeToFirstToken <= sm.AvgTimeToFirstToken
                     /\ sm.AvgTimeToFirstToken <= sm.MaxTimeToFirstToken
               /\ ThroughputIdx(rs) # {} =>
                     /\ sm.AvgTokenThroughput.den > 0
                     /\ sm.MinTokenThroughput * sm.AvgTokenThroughput.den
                           <= sm.AvgTokenThroughput.num
                     /\ sm.AvgTokenThroughput.num
                           <= sm.MaxTokenThroughput * sm.AvgTokenThroughput.den

\* C36: a failed streaming result carries no throughput data: its
\* TokenThroughput, StreamingTokens and StreamingDuration are zero, while
\* TimeToFirstToken is that of the first fragment if one arrived before the
\* error.
C36_FailedHasNoThroughput ==
    Streamed =>
        /\ streamResult.Success <=> streamInput.err = Nil
        /\ ~streamResult.Success =>
              /\ streamResult.TokenThroughput.num = 0
              /\ streamResult.StreamingTokens = 0
              /\ streamResult.StreamingDuration = 0
              /\ streamResult.TimeToFirstToken =
                    IF ContentIdx = {} THEN 0 ELSE FirstFragmentAt

\* a stream failed after two fragments, the second later than the first
C36_Witness ==
    /\ Streamed
    /\ ~streamResult.Success
    /\ streamResult.TimeToFirstToken > 0
    /\ Cardinality(ContentIdx) = 2
    /\ streamInput.chunks[2].at > streamInput.chunks[1].at
    /\ streamResult.StreamingDuration = 0

\* C37: during a run the progress shown for a provider only moves forward
\* and Completed never exceeds Total.
C37_ProgressForward ==
    /\ [](\A q \in DOMAIN model.benchmarkProgress :
             model.benchmarkProgress[q].Completed <= model.benchmarkProgress[q].Total)
    /\ [][(Running /\ model'.state = "StateBenchmarkRunning") =>
             \A q \in DOMAIN model.benchmarkProgress \cap DOMAIN model'.benchmarkProgress :
                 model'.benchmarkProgress[q].Completed
                     >= model.benchmarkProgress[q].Completed]_vars

\* C38: every progress or completion message applied to the model comes
\* from the run that is current when it is applied.
C38_NoStaleMessage == lastApplied.from = lastApplied.during

\* C39: the request count and concurrency limit that the command prints and
\* writes to the metadata of the saved file are the ones the benchmark ran
\* with, also when --requests or --concurrent replace the configured
\* values: metadata.requests is the number of records of each provider.
C39_MetadataMatchesRun ==
    cliOut.ran =>
        /\ cliOut.printed = cliOut.service
        /\ cliOut.saved =>
              /\ cliOut.metadata = cliOut.service
              /\ cliOut.metadata.Requests = cliOut.records

====
